---- MODULE Spec2Model ----
(***************************************************************************)
(* The expression parser of the Leo parser crate                           *)
(* (parser/src/parser/expression.rs): a recursive-descent, operator-       *)
(* precedence parser over a token stream with one mutable mode flag,       *)
(* fuzzy_struct_state (TRUE = circuit/struct initializers restricted).     *)
(*                                                                         *)
(* Every parse function of the source is an operator that takes the parser *)
(* context (cursor position and mode flag) and returns a SyntaxResult      *)
(* together with the context it leaves behind, so the mutations of         *)
(* `&mut self` are threaded through exactly as the code performs them.     *)
(***************************************************************************)
EXTENDS Integers, Sequences, FiniteSets, TLC

VARIABLES
    tokens,              \* the token stream handed to the parser (fixed per run)
    pos,                 \* ParserContext cursor: index of the next unconsumed token
    fuzzy_struct_state,  \* ParserContext.fuzzy_struct_state
    result,              \* what the last call returned (a SyntaxResult)
    called,              \* which pub fn the caller invoked ("none" before the call)
    entry_pos,           \* cursor when the call was entered
    entry_fuzzy,         \* fuzzy_struct_state when the call was entered
    stalled              \* the call went round a loop, or re-entered itself, at a standstill

vars == <<tokens, pos, fuzzy_struct_state, result, called, entry_pos, entry_fuzzy, stalled>>

-----------------------------------------------------------------------------
(* Tokens and spans                                                        *)

Tk(k) == [token |-> k, value |-> ""]
TIdent(n) == [token |-> "Ident", value |-> n]
TInt(v) == [token |-> "Int", value |-> v]
TAddressLit(v) == [token |-> "AddressLit", value |-> v]

\* const INT_TYPES
INT_TYPES == {"I8", "I16", "I32", "I64", "I128", "U8", "U16", "U32", "U64", "U128",
              "Field", "Group"}

\* The token at index i covers the source range [2i-1, 2i].
TokenSpan(i) == [lo |-> 2 * i - 1, hi |-> 2 * i]

Min(a, b) == IF a <= b THEN a ELSE b
Max(a, b) == IF a >= b THEN a ELSE b

\* Span + Span: the smallest range covering both.
SpanAdd(a, b) == [lo |-> Min(a.lo, b.lo), hi |-> Max(a.hi, b.hi)]

NoSpan == [lo |-> 0, hi |-> 0]

-----------------------------------------------------------------------------
(* AST nodes: one record shape for every Expression variant                *)

Node(kind, op, value, args, span) ==
    [kind |-> kind, op |-> op, value |-> value, args |-> args, span |-> span]

Identifier(name, span) == Node("Identifier", "", name, <<>>, span)
Boolean(v, span) == Node("Boolean", "", v, <<>>, span)
Integer(type_, v, span) == Node("Integer", type_, v, <<>>, span)
Implicit(v, span) == Node("Implicit", "", v, <<>>, span)
Field(v, span) == Node("Field", "", v, <<>>, span)
Address(v, span) == Node("Address", "", v, <<>>, span)
GroupSingle(v, span) == Node("Group", "Single", v, <<>>, span)
GroupTuple(x, y, span) == Node("Group", "Tuple", "", <<x, y>>, span)
Binary(op, left, right, span) == Node("Binary", op, "", <<left, right>>, span)
Unary(op, inner, span) == Node("Unary", op, "", <<inner>>, span)
Ternary(c, t, f, span) == Node("Ternary", "", "", <<c, t, f>>, span)
Cast(inner, type_, span) == Node("Cast", "", type_, <<inner>>, span)
ArrayInline(elements, span) == Node("ArrayInline", "", "", elements, span)
ArrayInit(element, dims, span) == Node("ArrayInit", "", "", <<element, dims>>, span)
ArrayAccess(array, index, span) == Node("ArrayAccess", "", "", <<array, index>>, span)
ArrayRangeAccess(array, left, right, span) ==
    Node("ArrayRangeAccess", "", "", <<array, left, right>>, span)
TupleInit(elements, span) == Node("TupleInit", "", "", elements, span)
TupleAccess(tuple, index, span) == Node("TupleAccess", "", index, <<tuple>>, span)
CircuitMemberAccess(circuit, name, span) ==
    Node("CircuitMemberAccess", "", name.value, <<circuit, name>>, span)
CircuitStaticFunctionAccess(circuit, name, span) ==
    Node("CircuitStaticFunctionAccess", "", name.value, <<circuit, name>>, span)
Call(function, arguments, span) == Node("Call", "", "", <<function>> \o arguments, span)
CircuitInit(name, members, span) == Node("CircuitInit", "", name.value, <<name>> \o members, span)

\* Option::None for an absent range bound
None == Node("None", "", "", <<>>, NoSpan)
\* SpreadOrExpression
Spread(e) == Node("Spread", "", "", <<e>>, e.span)
Expression(e) == Node("Expression", "", "", <<e>>, e.span)
\* CircuitImpliedVariableDefinition { identifier, expression: Option }
CircuitImpliedVariableDefinition(identifier, expression) ==
    Node("CircuitImpliedVariableDefinition", "", identifier.value, <<identifier, expression>>,
         identifier.span)
\* ArrayDimensions, a list of numbers
Dimension(v) == Node("Dimension", "", v, <<>>, NoSpan)
ArrayDimensions(ds) == Node("ArrayDimensions", "", "", ds, NoSpan)
\* GroupCoordinate
GroupCoordinate(op, v) == Node("GroupCoordinate", op, v, <<>>, NoSpan)
\* SyntaxError payload
SyntaxError(what, span) == Node("SyntaxError", "", what, <<>>, span)

-----------------------------------------------------------------------------
(* SyntaxResult plus the context the call leaves behind                    *)

\* ParserContext: the cursor and the mode flag.  The other fields are no
\* fields of the program.  `sub` holds what parse_expression_fuzzy returns at
\* each later position of the stream (see parse_expression_fuzzy below).
\* `stall` records that a loop of the parser began an iteration, or that
\* parse_expression_fuzzy was entered, with the cursor no further than at the
\* iteration or entry before; `entered` is the cursor at the latest entry of
\* parse_expression_fuzzy.  A stalled parse would repeat itself for ever: it
\* is cut off by letting it see no more tokens (HasNext).
Ctx(p, f, sub) == [pos |-> p, fuzzy_struct_state |-> f, sub |-> sub, stall |-> FALSE,
                   entered |-> 0]
\* the context `to` with which a loop begun at `from` goes round again
Iterate(from, to) == [to EXCEPT !.stall = @ \/ to.pos <= from.pos]
\* the context on entry of parse_expression_fuzzy
Enter(ctx) == [ctx EXCEPT !.stall = @ \/ ctx.pos <= ctx.entered, !.entered = ctx.pos]
Ok(e, ctx) == [ok |-> TRUE, expr |-> e, ctx |-> ctx]
Err(e, ctx) == [ok |-> FALSE, expr |-> e, ctx |-> ctx]
Advance(ctx) == [ctx EXCEPT !.pos = @ + 1]

-----------------------------------------------------------------------------
(* The token cursor (ParserContext's peek / eat / expect family).  A       *)
(* primitive returns ok, the token and span it looked at, an error payload *)
(* (meaningful when it fails with an error) and the context afterwards.    *)

HasNext(ctx) == ~ctx.stall /\ ctx.pos <= Len(tokens)
Cur(ctx) == tokens[ctx.pos]
Eof(ctx) == SyntaxError("unexpected_eof", NoSpan)
Unexpected(ctx, expected) == SyntaxError(expected, TokenSpan(ctx.pos))

Got(ctx) == [ok |-> TRUE, token |-> Cur(ctx), span |-> TokenSpan(ctx.pos),
             expr |-> None, ctx |-> Advance(ctx)]
Not_(e, ctx) == [ok |-> FALSE, token |-> Tk("Eof"), span |-> NoSpan, expr |-> e, ctx |-> ctx]

\* peek: the next token, not consumed; fails when the stream is exhausted
peek(ctx) ==
    IF HasNext(ctx)
    THEN [ok |-> TRUE, token |-> Cur(ctx), span |-> TokenSpan(ctx.pos), expr |-> None, ctx |-> ctx]
    ELSE Not_(Eof(ctx), ctx)

\* eat: consume the next token if it is `k`
eat(ctx, k) ==
    IF HasNext(ctx) /\ Cur(ctx).token = k THEN Got(ctx) ELSE Not_(None, ctx)

\* eat_any: consume the next token if it is one of `ks`
eat_any(ctx, ks) ==
    IF HasNext(ctx) /\ Cur(ctx).token \in ks THEN Got(ctx) ELSE Not_(None, ctx)

\* expect: consume-and-require a token of kind `k`
expect(ctx, k) ==
    IF ~HasNext(ctx) THEN Not_(Eof(ctx), ctx)
    ELSE IF Cur(ctx).token = k THEN Got(ctx)
    ELSE Not_(Unexpected(ctx, k), ctx)

\* expect_any: consume whatever token is next
expect_any(ctx) == IF HasNext(ctx) THEN Got(ctx) ELSE Not_(Eof(ctx), ctx)

\* eat_identifier / expect_ident / eat_int
eat_identifier(ctx) == eat(ctx, "Ident")
expect_ident(ctx) ==
    IF ~HasNext(ctx) THEN Not_(Eof(ctx), ctx)
    ELSE IF Cur(ctx).token = "Ident" THEN Got(ctx)
    ELSE Not_(Unexpected(ctx, "ident"), ctx)
eat_int(ctx) == eat(ctx, "Int")

\* Token's Display for the keyword identifiers
TokenToString(t) ==
    CASE t.token = "BigSelf" -> "Self"
      [] t.token = "Input" -> "input"
      [] t.token = "LittleSelf" -> "self"
      [] OTHER -> t.value

\* token_to_int_type: None for a token that is no integer type
IntTypeTokens == INT_TYPES \ {"Field", "Group"}
token_to_int_type(k) ==
    CASE k = "I8" -> "i8" [] k = "I16" -> "i16" [] k = "I32" -> "i32"
      [] k = "I64" -> "i64" [] k = "I128" -> "i128"
      [] k = "U8" -> "u8" [] k = "U16" -> "u16" [] k = "U32" -> "u32"
      [] k = "U64" -> "u64" [] k = "U128" -> "u128"
      [] OTHER -> "none"

\* parse_type: one type annotation (a primitive type keyword or a circuit name)
TypeTokens == INT_TYPES \cup {"Bool", "Address", "Char", "BigSelf", "Ident"}
TypeName(t) ==
    CASE t.token = "Ident" -> t.value
      [] t.token = "BigSelf" -> "Self"
      [] t.token \in IntTypeTokens -> token_to_int_type(t.token)
      [] t.token = "Field" -> "field"
      [] t.token = "Group" -> "group"
      [] t.token = "Bool" -> "bool"
      [] t.token = "Address" -> "address"
      [] OTHER -> "char"
parse_type(ctx) ==
    IF ~HasNext(ctx) THEN Not_(Eof(ctx), ctx)
    ELSE IF Cur(ctx).token \in TypeTokens THEN Got(ctx)
    ELSE Not_(Unexpected(ctx, "type"), ctx)

\* parse_array_dimensions: one number, or a parenthesized comma-separated list
RECURSIVE parse_array_dimensions_list(_, _)
parse_array_dimensions_list(ds, ctx) ==
    LET with_close(ds2, e) ==
            IF ~e.ok THEN Err(e.expr, e.ctx) ELSE Ok(ArrayDimensions(ds2), e.ctx)
        with_comma(n, ds2, c) ==
            IF c.ok THEN parse_array_dimensions_list(ds2, c.ctx)
            ELSE with_close(ds2, expect(n.ctx, "RightParen"))
        with_int(n) ==
            IF ~n.ok THEN Err(IF HasNext(ctx) THEN Unexpected(ctx, "int") ELSE Eof(ctx), ctx)
            ELSE with_comma(n, Append(ds, Dimension(n.token.value)), eat(n.ctx, "Comma"))
    IN  with_int(eat_int(ctx))

parse_array_dimensions(ctx) ==
    LET with_open(l) ==
            IF ~l.ok THEN Err(l.expr, l.ctx) ELSE parse_array_dimensions_list(<<>>, l.ctx)
        with_int(n) ==
            IF n.ok THEN Ok(ArrayDimensions(<<Dimension(n.token.value)>>), n.ctx)
            ELSE with_open(expect(ctx, "LeftParen"))
    IN  with_int(eat_int(ctx))

\* eat_group_partial: after `(`, try `coord , coord ) group`; consumes nothing
\* unless the whole prefix matches.  coord is a number, a negated number, or
\* one of the sign placeholders + - _.
peek_group_coordinate(i) ==
    IF i > Len(tokens) THEN [ok |-> FALSE, coord |-> None, next |-> i]
    ELSE LET t == tokens[i] IN
         CASE t.token = "Int" ->
                [ok |-> TRUE, coord |-> GroupCoordinate("Number", t.value), next |-> i + 1]
           [] t.token = "Minus" /\ i + 1 <= Len(tokens) /\ tokens[i + 1].token = "Int" ->
                [ok |-> TRUE, coord |-> GroupCoordinate("Number", "-" \o tokens[i + 1].value),
                 next |-> i + 2]
           [] t.token = "Minus" /\ ~(i + 1 <= Len(tokens) /\ tokens[i + 1].token = "Int") ->
                [ok |-> TRUE, coord |-> GroupCoordinate("SignLow", ""), next |-> i + 1]
           [] t.token = "Add" ->
                [ok |-> TRUE, coord |-> GroupCoordinate("SignHigh", ""), next |-> i + 1]
           [] t.token = "Underscore" ->
                [ok |-> TRUE, coord |-> GroupCoordinate("Inferred", ""), next |-> i + 1]
           [] OTHER -> [ok |-> FALSE, coord |-> None, next |-> i]

eat_group_partial(ctx) ==
    LET none == [ok |-> FALSE, x |-> None, y |-> None, span |-> NoSpan, ctx |-> ctx]
        with_second(first, second) ==
            IF ~second.ok \/ second.next + 1 > Len(tokens)
               \/ tokens[second.next].token # "RightParen"
               \/ tokens[second.next + 1].token # "Group" THEN none
            ELSE [ok |-> TRUE, x |-> first.coord, y |-> second.coord,
                  span |-> SpanAdd(TokenSpan(ctx.pos), TokenSpan(second.next + 1)),
                  ctx |-> [ctx EXCEPT !.pos = second.next + 2]]
        with_first(first) ==
            IF ~first.ok \/ first.next > Len(tokens) \/ tokens[first.next].token # "Comma"
            THEN none
            ELSE with_second(first, peek_group_coordinate(first.next + 1))
    IN  with_first(peek_group_coordinate(ctx.pos))

-----------------------------------------------------------------------------
(* The parser.  `?` is "return the failed result as it is"; a `while`      *)
(* loop is a recursive operator over the loop's variables.                 *)

RECURSIVE parse_expression(_), parse_expression_fuzzy(_), parse_expression_fuzzy_body(_)
RECURSIVE parse_or_expression(_), parse_or_loop(_, _, _, _)
RECURSIVE parse_and_expression(_), parse_and_loop(_, _, _, _)
RECURSIVE parse_bit_or_expression(_), parse_bit_or_loop(_, _, _, _)
RECURSIVE parse_bit_xor_expression(_), parse_bit_xor_loop(_, _, _, _)
RECURSIVE parse_bit_and_expression(_), parse_bit_and_loop(_, _, _, _)
RECURSIVE parse_eq_expression(_), parse_eq_loop(_, _, _, _)
RECURSIVE parse_rel_expression(_), parse_rel_loop(_, _, _, _)
RECURSIVE parse_shift_expression(_), parse_shift_loop(_, _, _, _)
RECURSIVE parse_add_sub_expression(_), parse_add_sub_loop(_, _, _, _)
RECURSIVE parse_mul_div_mod_expression(_), parse_mul_div_mod_loop(_, _, _, _)
RECURSIVE parse_exp_expression(_), parse_exp_collect(_, _), parse_exp_fold(_, _)
RECURSIVE parse_cast_expression(_), parse_cast_loop(_, _)
RECURSIVE parse_unary_expression(_), parse_unary_ops(_, _), parse_unary_apply(_, _)
RECURSIVE parse_access_expression(_), parse_access_loop(_, _), parse_call_arguments(_, _)
RECURSIVE parse_spread_or_expression(_)
RECURSIVE parse_circuit_init(_, _), parse_circuit_members(_, _)
RECURSIVE parse_primary_expression(_), parse_tuple_elements(_, _), parse_array_elements(_, _)

\* parse_expression without the restore of the flag on return
parse_expression_unrestored(ctx) ==
    parse_expression_fuzzy([ctx EXCEPT !.fuzzy_struct_state = FALSE])

\* parse_expression without the clearing of the flag on entry
parse_expression_uncleared(ctx) ==
    LET prior_fuzzy_state == ctx.fuzzy_struct_state
    IN  [parse_expression_fuzzy(ctx) EXCEPT !.ctx.fuzzy_struct_state = prior_fuzzy_state]

\* pub fn parse_expression
parse_expression(ctx) ==
    LET prior_fuzzy_state == ctx.fuzzy_struct_state
    IN  [parse_expression_fuzzy([ctx EXCEPT !.fuzzy_struct_state = FALSE])
            EXCEPT !.ctx.fuzzy_struct_state = prior_fuzzy_state]

\* parse_expression_fuzzy with the false-branch read at the or level
parse_expression_fuzzy_body_flat(ctx) ==
    LET with_if_false(expr, if_true, if_false) ==
            IF ~if_false.ok THEN if_false ELSE
            Ok(Ternary(expr.expr, if_true.expr, if_false.expr,
                       SpanAdd(expr.expr.span, if_false.expr.span)),
               if_false.ctx)
        with_if_true(expr, if_true) ==
            LET colon == expect(if_true.ctx, "Colon") IN
            IF ~if_true.ok THEN if_true
            ELSE IF ~colon.ok THEN Err(colon.expr, colon.ctx)
            ELSE with_if_false(expr, if_true, parse_or_expression(colon.ctx))
        with_expr(expr) ==
            LET q == eat(expr.ctx, "Question") IN
            IF ~expr.ok THEN expr
            ELSE IF ~q.ok THEN Ok(expr.expr, q.ctx)
            ELSE with_if_true(expr, parse_expression(q.ctx))
    IN  with_expr(parse_or_expression(ctx))

\* pub fn parse_expression_fuzzy
parse_expression_fuzzy_body(ctx) ==
    LET with_if_false(expr, if_true, if_false) ==
            IF ~if_false.ok THEN if_false ELSE
            Ok(Ternary(expr.expr, if_true.expr, if_false.expr,
                       SpanAdd(expr.expr.span, if_false.expr.span)),
               if_false.ctx)
        with_if_true(expr, if_true) ==
            LET colon == expect(if_true.ctx, "Colon") IN
            IF ~if_true.ok THEN if_true
            ELSE IF ~colon.ok THEN Err(colon.expr, colon.ctx)
            ELSE with_if_false(expr, if_true, parse_expression_fuzzy(colon.ctx))
        with_expr(expr) ==
            LET q == eat(expr.ctx, "Question") IN
            IF ~expr.ok THEN expr
            ELSE IF ~q.ok THEN Ok(expr.expr, q.ctx)
            ELSE with_if_true(expr, parse_expression(q.ctx))
    IN  with_expr(parse_or_expression(ctx))

\* What a call returns depends on the stream, the cursor and the flag only.
\* A call made at a position p whose outcome is already in ctx.sub (a call
\* nested inside another expression, made after the enclosing call has
\* consumed a token) returns the recorded outcome, which is the outcome of
\* this same function computed on the positions after p; any other call runs
\* the body.  The nesting of the evaluation is thereby that of one descent
\* through the cascade, whatever the nesting of the input.
RowOf(ctx) ==
    IF Len(tokens) + 2 - ctx.pos <= Len(ctx.sub)
    THEN IF ctx.fuzzy_struct_state THEN ctx.sub[Len(tokens) + 2 - ctx.pos].restricted
         ELSE ctx.sub[Len(tokens) + 2 - ctx.pos].allowed
    ELSE [known |-> FALSE]
HasRow(ctx) == RowOf(ctx).known
Recorded(ctx) ==
    LET r == RowOf(ctx) IN
    [ok |-> r.ok, expr |-> r.expr,
     ctx |-> [ctx EXCEPT !.pos = r.pos, !.fuzzy_struct_state = r.fuzzy_struct_state,
                         !.stall = r.stall, !.entered = r.entered]]

parse_expression_fuzzy(ctx) ==
    IF HasRow(ctx) /\ ~Enter(ctx).stall THEN Recorded(ctx)
    ELSE parse_expression_fuzzy_body(Enter(ctx))

\* The ten left-associative levels.  Each `let mut expr = next()?; while let
\* Some(op) = eat(..) { let right = next()?; expr = Binary(op, expr, right) }`
\* is one recursive operator that parses an operand, folds it onto the
\* accumulated expression under the operator consumed before it (there is
\* none before the first operand), and goes round again when an operator of
\* the level follows.  `first` is the function's first operand parse.
Fold(first, op, expr, right) ==
    IF first THEN right ELSE Binary(op, expr, right, SpanAdd(expr.span, right.span))

\* pub fn parse_or_expression
or_operation(k) ==
    CASE k = "Or" -> "Or"
      [] OTHER -> "unimplemented"

parse_or_loop(first, op, expr, ctx) ==
    LET with_next(folded, next) ==
            IF next.ok
            THEN parse_or_loop(FALSE, or_operation(next.token.token), folded,
                 Iterate(ctx, next.ctx))
            ELSE Ok(folded, next.ctx)
        with_operand(operand) ==
            IF operand.ok
            THEN with_next(Fold(first, op, expr, operand.expr), eat(operand.ctx, "Or"))
            ELSE operand
    IN  with_operand(parse_and_expression(ctx))

parse_or_expression(ctx) == parse_or_loop(TRUE, "", None, ctx)

\* pub fn parse_and_expression
and_operation(k) ==
    CASE k = "And" -> "And"
      [] OTHER -> "unimplemented"

parse_and_loop(first, op, expr, ctx) ==
    LET with_next(folded, next) ==
            IF next.ok
            THEN parse_and_loop(FALSE, and_operation(next.token.token), folded,
                 Iterate(ctx, next.ctx))
            ELSE Ok(folded, next.ctx)
        with_operand(operand) ==
            IF operand.ok
            THEN with_next(Fold(first, op, expr, operand.expr), eat(operand.ctx, "And"))
            ELSE operand
    IN  with_operand(parse_bit_or_expression(ctx))

parse_and_expression(ctx) == parse_and_loop(TRUE, "", None, ctx)

\* pub fn parse_bit_or_expression
bit_or_operation(k) ==
    CASE k = "BitOr" -> "BitOr"
      [] OTHER -> "unimplemented"

parse_bit_or_loop(first, op, expr, ctx) ==
    LET with_next(folded, next) ==
            IF next.ok
            THEN parse_bit_or_loop(FALSE, bit_or_operation(next.token.token), folded,
                 Iterate(ctx, next.ctx))
            ELSE Ok(folded, next.ctx)
        with_operand(operand) ==
            IF operand.ok
            THEN with_next(Fold(first, op, expr, operand.expr), eat(operand.ctx, "BitOr"))
            ELSE operand
    IN  with_operand(parse_bit_xor_expression(ctx))

parse_bit_or_expression(ctx) == parse_bit_or_loop(TRUE, "", None, ctx)

\* pub fn parse_bit_xor_expression
bit_xor_operation(k) ==
    CASE k = "BitXor" -> "BitXor"
      [] OTHER -> "unimplemented"

parse_bit_xor_loop(first, op, expr, ctx) ==
    LET with_next(folded, next) ==
            IF next.ok
            THEN parse_bit_xor_loop(FALSE, bit_xor_operation(next.token.token), folded,
                 Iterate(ctx, next.ctx))
            ELSE Ok(folded, next.ctx)
        with_operand(operand) ==
            IF operand.ok
            THEN with_next(Fold(first, op, expr, operand.expr), eat(operand.ctx, "BitXor"))
            ELSE operand
    IN  with_operand(parse_bit_and_expression(ctx))

parse_bit_xor_expression(ctx) == parse_bit_xor_loop(TRUE, "", None, ctx)

\* pub fn parse_bit_and_expression
bit_and_operation(k) ==
    CASE k = "BitAnd" -> "BitAnd"
      [] OTHER -> "unimplemented"

parse_bit_and_loop(first, op, expr, ctx) ==
    LET with_next(folded, next) ==
            IF next.ok
            THEN parse_bit_and_loop(FALSE, bit_and_operation(next.token.token), folded,
                 Iterate(ctx, next.ctx))
            ELSE Ok(folded, next.ctx)
        with_operand(operand) ==
            IF operand.ok
            THEN with_next(Fold(first, op, expr, operand.expr), eat(operand.ctx, "BitAnd"))
            ELSE operand
    IN  with_operand(parse_eq_expression(ctx))

parse_bit_and_expression(ctx) == parse_bit_and_loop(TRUE, "", None, ctx)

\* pub fn parse_eq_expression
eq_operation(k) ==
    CASE k = "Eq" -> "Eq"
      [] k = "NotEq" -> "Ne"
      [] OTHER -> "unimplemented"

parse_eq_loop(first, op, expr, ctx) ==
    LET with_next(folded, next) ==
            IF next.ok
            THEN parse_eq_loop(FALSE, eq_operation(next.token.token), folded,
                 Iterate(ctx, next.ctx))
            ELSE Ok(folded, next.ctx)
        with_operand(operand) ==
            IF operand.ok
            THEN with_next(Fold(first, op, expr, operand.expr), eat_any(operand.ctx, {"Eq", "NotEq"}))
            ELSE operand
    IN  with_operand(parse_rel_expression(ctx))

parse_eq_expression(ctx) == parse_eq_loop(TRUE, "", None, ctx)

\* the relational mapping with <= taken for <
rel_operation_strict(k) ==
    CASE k = "Lt" -> "Lt"
      [] k = "LtEq" -> "Lt"
      [] k = "Gt" -> "Gt"
      [] k = "GtEq" -> "Ge"
      [] OTHER -> "unimplemented"

\* pub fn parse_rel_expression
rel_operation(k) ==
    CASE k = "Lt" -> "Lt"
      [] k = "LtEq" -> "Le"
      [] k = "Gt" -> "Gt"
      [] k = "GtEq" -> "Ge"
      [] OTHER -> "unimplemented"

parse_rel_loop(first, op, expr, ctx) ==
    LET with_next(folded, next) ==
            IF next.ok
            THEN parse_rel_loop(FALSE, rel_operation(next.token.token), folded,
                 Iterate(ctx, next.ctx))
            ELSE Ok(folded, next.ctx)
        with_operand(operand) ==
            IF operand.ok
            THEN with_next(Fold(first, op, expr, operand.expr), eat_any(operand.ctx, {"Lt", "LtEq", "Gt", "GtEq"}))
            ELSE operand
    IN  with_operand(parse_shift_expression(ctx))

parse_rel_expression(ctx) == parse_rel_loop(TRUE, "", None, ctx)

\* pub fn parse_shift_expression
shift_operation(k) ==
    CASE k = "Shl" -> "Shl"
      [] k = "Shr" -> "Shr"
      [] k = "ShrSigned" -> "ShrSigned"
      [] OTHER -> "unimplemented"

\* the shift level with multiplicative operands: the additive level left out
parse_shift_loop_skipping(first, op, expr, ctx) ==
    LET with_next(folded, next) ==
            IF next.ok
            THEN parse_shift_loop(FALSE, shift_operation(next.token.token), folded,
                 Iterate(ctx, next.ctx))
            ELSE Ok(folded, next.ctx)
        with_operand(operand) ==
            IF operand.ok
            THEN with_next(Fold(first, op, expr, operand.expr), eat_any(operand.ctx, {"Shl", "Shr", "ShrSigned"}))
            ELSE operand
    IN  with_operand(parse_mul_div_mod_expression(ctx))

parse_shift_loop(first, op, expr, ctx) ==
    LET with_next(folded, next) ==
            IF next.ok
            THEN parse_shift_loop(FALSE, shift_operation(next.token.token), folded,
                 Iterate(ctx, next.ctx))
            ELSE Ok(folded, next.ctx)
        with_operand(operand) ==
            IF operand.ok
            THEN with_next(Fold(first, op, expr, operand.expr), eat_any(operand.ctx, {"Shl", "Shr", "ShrSigned"}))
            ELSE operand
    IN  with_operand(parse_add_sub_expression(ctx))

parse_shift_expression(ctx) == parse_shift_loop(TRUE, "", None, ctx)

\* pub fn parse_add_sub_expression
add_sub_operation(k) ==
    CASE k = "Add" -> "Add"
      [] k = "Minus" -> "Sub"
      [] OTHER -> "unimplemented"

parse_add_sub_loop(first, op, expr, ctx) ==
    LET with_next(folded, next) ==
            IF next.ok
            THEN parse_add_sub_loop(FALSE, add_sub_operation(next.token.token), folded,
                 Iterate(ctx, next.ctx))
            ELSE Ok(folded, next.ctx)
        with_operand(operand) ==
            IF operand.ok
            THEN with_next(Fold(first, op, expr, operand.expr), eat_any(operand.ctx, {"Add", "Minus"}))
            ELSE operand
    IN  with_operand(parse_mul_div_mod_expression(ctx))

parse_add_sub_expression(ctx) == parse_add_sub_loop(TRUE, "", None, ctx)

\* pub fn parse_mul_div_mod_expression
mul_div_mod_operation(k) ==
    CASE k = "Mul" -> "Mul"
      [] k = "Div" -> "Div"
      [] k = "Mod" -> "Mod"
      [] OTHER -> "unimplemented"

parse_mul_div_mod_loop(first, op, expr, ctx) ==
    LET with_next(folded, next) ==
            IF next.ok
            THEN parse_mul_div_mod_loop(FALSE, mul_div_mod_operation(next.token.token), folded,
                 Iterate(ctx, next.ctx))
            ELSE Ok(folded, next.ctx)
        with_operand(operand) ==
            IF operand.ok
            THEN with_next(Fold(first, op, expr, operand.expr), eat_any(operand.ctx, {"Mul", "Div", "Mod"}))
            ELSE operand
    IN  with_operand(parse_exp_expression(ctx))

parse_mul_div_mod_expression(ctx) == parse_mul_div_mod_loop(TRUE, "", None, ctx)

\* pub fn parse_exp_expression: collect the operands, then fold from the right
parse_exp_collect(exprs, ctx) ==
    LET with_next(next) ==
            LET op == eat(next.ctx, "Exp") IN
            IF ~next.ok
            THEN [ok |-> FALSE, exprs |-> exprs, expr |-> next.expr, ctx |-> next.ctx]
            ELSE IF ~op.ok
            THEN [ok |-> TRUE, exprs |-> Append(exprs, next.expr), expr |-> None,
                  ctx |-> op.ctx]
            ELSE parse_exp_collect(Append(exprs, next.expr), Iterate(ctx, op.ctx))
    IN  with_next(parse_cast_expression(ctx))

\* the fold of the collected operands with left and right exchanged
parse_exp_fold_swapped(expr, exprs) ==
    IF exprs = <<>> THEN expr
    ELSE LET sub_expr == exprs[Len(exprs)] IN
         parse_exp_fold(Binary("Pow", expr, sub_expr, SpanAdd(expr.span, sub_expr.span)),
                        SubSeq(exprs, 1, Len(exprs) - 1))

parse_exp_fold(expr, exprs) ==
    IF exprs = <<>> THEN expr
    ELSE LET sub_expr == exprs[Len(exprs)] IN
         parse_exp_fold(Binary("Pow", sub_expr, expr, SpanAdd(expr.span, sub_expr.span)),
                        SubSeq(exprs, 1, Len(exprs) - 1))

parse_exp_expression(ctx) ==
    LET with_all(all) ==
            IF ~all.ok THEN Err(all.expr, all.ctx) ELSE
            Ok(parse_exp_fold(all.exprs[Len(all.exprs)],
                              SubSeq(all.exprs, 1, Len(all.exprs) - 1)),
               all.ctx)
    IN  with_all(parse_exp_collect(<<>>, ctx))

\* pub fn parse_cast_expression
parse_cast_loop(expr, ctx) ==
    LET as == eat(ctx, "As")
        type_ == parse_type(as.ctx)
    IN  IF ~as.ok THEN Ok(expr, as.ctx)
        ELSE IF ~type_.ok THEN Err(type_.expr, type_.ctx)
        ELSE parse_cast_loop(Cast(expr, TypeName(type_.token),
                                  SpanAdd(expr.span, type_.span)),
                             Iterate(ctx, type_.ctx))

parse_cast_expression(ctx) ==
    LET with_expr(expr) == IF ~expr.ok THEN expr ELSE parse_cast_loop(expr.expr, expr.ctx)
    IN  with_expr(parse_unary_expression(ctx))

\* pub fn parse_unary_expression
unary_operation(k) ==
    CASE k = "Not" -> "Not"
      [] k = "Minus" -> "Negate"
      [] k = "BitNot" -> "BitNot"
      [] OTHER -> "unimplemented"

\* the prefix run going round again with the cursor left where it was
parse_unary_ops_standing(ops, ctx) ==
    LET token == eat_any(ctx, {"Not", "Minus", "BitNot"}) IN
    IF ~token.ok THEN [ops |-> ops, ctx |-> token.ctx]
    ELSE parse_unary_ops(Append(ops, [token |-> token.token.token, span |-> token.span]),
                         Iterate(ctx, ctx))

\* the prefix run: ops holds the consumed operator tokens with their spans
parse_unary_ops(ops, ctx) ==
    LET token == eat_any(ctx, {"Not", "Minus", "BitNot"}) IN
    IF ~token.ok THEN [ops |-> ops, ctx |-> token.ctx]
    ELSE parse_unary_ops(Append(ops, [token |-> token.token.token, span |-> token.span]),
                         Iterate(ctx, token.ctx))

\* one application of a prefix operator to the current operand
apply_unary(op, inner) ==
    LET operation == unary_operation(op.token) IN
    IF operation = "Negate" /\ inner.kind = "Integer"
    THEN Integer(inner.op, "-" \o inner.value, SpanAdd(op.span, inner.span))
    ELSE IF operation = "Negate" /\ inner.kind = "Implicit"
    THEN Implicit("-" \o inner.value, SpanAdd(op.span, inner.span))
    ELSE Unary(operation, inner, SpanAdd(op.span, inner.span))

\* the application of the prefix operators without the rev()
parse_unary_apply_forward(ops, inner) ==
    IF ops = <<>> THEN inner
    ELSE parse_unary_apply(Tail(ops), apply_unary(Head(ops), inner))

\* for op in ops.into_iter().rev()
parse_unary_apply(ops, inner) ==
    IF ops = <<>> THEN inner
    ELSE parse_unary_apply(SubSeq(ops, 1, Len(ops) - 1), apply_unary(ops[Len(ops)], inner))

\* let mut inner = self.parse_access_expression()?, and the operators applied
parse_unary_inner(pre) ==
    LET with_inner(inner) ==
            IF ~inner.ok THEN inner
            ELSE Ok(parse_unary_apply(pre.ops, inner.expr), inner.ctx)
    IN  with_inner(parse_access_expression(pre.ctx))

parse_unary_expression(ctx) == parse_unary_inner(parse_unary_ops(<<>>, ctx))

\* the rest of a range read as if no right bound could be written
parse_range_right_absent(ctx) ==
    LET next == peek(ctx)
        end == expect(ctx, "RightSquare")
    IN  IF ~next.ok THEN [ok |-> FALSE, right |-> None, end |-> NoSpan, expr |-> next.expr,
                          ctx |-> next.ctx]
        ELSE [ok |-> end.ok, right |-> None, end |-> end.span, expr |-> end.expr,
              ctx |-> end.ctx]

\* pub fn parse_access_expression
\* the optional right bound of a range and its closing `]`
parse_range_right(ctx) ==
    LET next == peek(ctx)
        with_right(right) ==
            LET end == expect(right.ctx, "RightSquare") IN
            IF ~right.ok THEN [ok |-> FALSE, right |-> None, end |-> NoSpan,
                               expr |-> right.expr, ctx |-> right.ctx]
            ELSE [ok |-> end.ok, right |-> right.expr, end |-> end.span, expr |-> end.expr,
                  ctx |-> end.ctx]
    IN  IF ~next.ok THEN [ok |-> FALSE, right |-> None, end |-> NoSpan, expr |-> next.expr,
                          ctx |-> next.ctx]
        ELSE with_right(IF next.token.token # "RightSquare" THEN parse_expression(ctx)
                        ELSE Ok(None, ctx))

\* the argument list of a call, up to and including `)`
parse_call_arguments(arguments, ctx) ==
    LET end == eat(ctx, "RightParen")
        with_arg(arg) ==
            LET comma == eat(arg.ctx, "Comma")
                close == expect(arg.ctx, "RightParen")
            IN  IF ~arg.ok THEN [ok |-> FALSE, args |-> arguments, end_span |-> NoSpan,
                                 expr |-> arg.expr, ctx |-> arg.ctx]
                ELSE IF comma.ok
                THEN parse_call_arguments(Append(arguments, arg.expr), Iterate(ctx, comma.ctx))
                ELSE [ok |-> close.ok, args |-> Append(arguments, arg.expr),
                      end_span |-> close.span, expr |-> close.expr, ctx |-> close.ctx]
    IN  IF end.ok THEN [ok |-> TRUE, args |-> arguments, end_span |-> end.span,
                        expr |-> None, ctx |-> end.ctx]
        ELSE with_arg(parse_expression(ctx))

\* Expression::ArrayRangeAccess, once the right bound and `]` are read; ctx
\* is the context in which this iteration of the loop began
parse_access_range(ctx, expr, left, r) ==
    IF ~r.ok THEN Err(r.expr, r.ctx)
    ELSE parse_access_loop(ArrayRangeAccess(expr, left, r.right, SpanAdd(expr.span, r.end)),
                           Iterate(ctx, r.ctx))

\* after `[ left`: a range when `..` follows, else the index and its `]`
parse_access_index(ctx, expr, left) ==
    LET dotdot == eat(left.ctx, "DotDot")
        end == expect(left.ctx, "RightSquare")
    IN  IF ~left.ok THEN left
        ELSE IF dotdot.ok
        THEN parse_access_range(ctx, expr, left.expr, parse_range_right(dotdot.ctx))
        ELSE IF ~end.ok THEN Err(end.expr, end.ctx)
        ELSE parse_access_loop(ArrayAccess(expr, left.expr, SpanAdd(expr.span, end.span)),
                               Iterate(ctx, end.ctx))

parse_access_loop(expr, ctx) ==
    LET token == eat_any(ctx, {"LeftSquare", "Dot", "LeftParen", "DoubleColon"})
        dotdot == eat(token.ctx, "DotDot")
        ident == eat_identifier(token.ctx)
        num == eat_int(token.ctx)
        next == peek(token.ctx)
        name == expect_ident(token.ctx)
        call(a) ==
            IF ~a.ok THEN Err(a.expr, a.ctx)
            ELSE parse_access_loop(Call(expr, a.args, SpanAdd(expr.span, a.end_span)),
                                   Iterate(ctx, a.ctx))
    IN  IF ~token.ok THEN Ok(expr, token.ctx)
        ELSE IF token.token.token = "LeftSquare" THEN
            IF dotdot.ok
            THEN parse_access_range(ctx, expr, None, parse_range_right(dotdot.ctx))
            ELSE parse_access_index(ctx, expr, parse_expression(token.ctx))
        ELSE IF token.token.token = "Dot" THEN
            IF ident.ok
            THEN parse_access_loop(
                     CircuitMemberAccess(expr, Identifier(ident.token.value, ident.span),
                                         SpanAdd(expr.span, ident.span)),
                     Iterate(ctx, ident.ctx))
            ELSE IF num.ok
            THEN parse_access_loop(TupleAccess(expr, num.token.value,
                                               SpanAdd(expr.span, num.span)),
                                   Iterate(ctx, num.ctx))
            ELSE IF ~next.ok THEN Err(next.expr, next.ctx)
            ELSE Err(SyntaxError("int or ident", next.span), next.ctx)
        ELSE IF token.token.token = "LeftParen"
        THEN call(parse_call_arguments(<<>>, token.ctx))
        ELSE \* Token::DoubleColon
            IF ~name.ok THEN Err(name.expr, name.ctx)
            ELSE parse_access_loop(
                     CircuitStaticFunctionAccess(expr, Identifier(name.token.value, name.span),
                                                 SpanAdd(expr.span, name.span)),
                     Iterate(ctx, name.ctx))

\* the postfix loop entered whether or not the primary expression was parsed
parse_access_postfix_recovering(expr) == parse_access_loop(expr.expr, expr.ctx)

\* the postfix loop on the primary expression just parsed
parse_access_postfix(expr) ==
    IF ~expr.ok THEN expr ELSE parse_access_loop(expr.expr, expr.ctx)

parse_access_expression(ctx) == parse_access_postfix(parse_primary_expression(ctx))

\* parse_spread_or_expression that drops the Spread tag
parse_spread_or_expression_untagged(ctx) ==
    LET dots == eat(ctx, "DotDotDot")
        expression(e) == IF ~e.ok THEN e ELSE Ok(Expression(e.expr), e.ctx)
    IN  expression(parse_expression(dots.ctx))

\* pub fn parse_spread_or_expression
parse_spread_or_expression(ctx) ==
    LET dots == eat(ctx, "DotDotDot")
        spread(e) == IF ~e.ok THEN e ELSE Ok(Spread(e.expr), e.ctx)
        expression(e) == IF ~e.ok THEN e ELSE Ok(Expression(e.expr), e.ctx)
    IN  IF dots.ok THEN spread(parse_expression(dots.ctx))
        ELSE expression(parse_expression(dots.ctx))

\* pub fn parse_circuit_init
parse_circuit_members(members, ctx) ==
    LET end == eat(ctx, "RightCurly")
        name == expect_ident(ctx)
        identifier == Identifier(name.token.value, name.span)
        colon == eat(name.ctx, "Colon")
        with_expression(expression) ==
            LET members2 == Append(members, CircuitImpliedVariableDefinition(identifier,
                                                                             expression.expr))
                comma == eat(expression.ctx, "Comma")
                close == expect(expression.ctx, "RightCurly")
            IN  IF ~expression.ok
                THEN [ok |-> FALSE, members |-> members, end_span |-> NoSpan,
                      expr |-> expression.expr, ctx |-> expression.ctx]
                ELSE IF comma.ok THEN parse_circuit_members(members2, Iterate(ctx, comma.ctx))
                ELSE [ok |-> close.ok, members |-> members2, end_span |-> close.span,
                      expr |-> close.expr, ctx |-> close.ctx]
    IN  IF end.ok THEN [ok |-> TRUE, members |-> members, end_span |-> end.span,
                        expr |-> None, ctx |-> end.ctx]
        ELSE IF ~name.ok THEN [ok |-> FALSE, members |-> members, end_span |-> NoSpan,
                               expr |-> name.expr, ctx |-> name.ctx]
        ELSE with_expression(IF colon.ok THEN parse_expression(colon.ctx)
                             ELSE Ok(None, colon.ctx))

parse_circuit_init(identifier, ctx) ==
    LET open == expect(ctx, "LeftCurly")
        with_members(m) ==
            IF ~m.ok THEN Err(m.expr, m.ctx) ELSE
            Ok(CircuitInit(identifier, m.members, SpanAdd(identifier.span, m.end_span)), m.ctx)
    IN  IF ~open.ok THEN Err(open.expr, open.ctx)
        ELSE with_members(parse_circuit_members(<<>>, open.ctx))

\* the list after `(` with each element put before the earlier ones
parse_tuple_elements_reversed(args, ctx) ==
    LET end == eat(ctx, "RightParen")
        with_expr(expr) ==
            LET comma == eat(expr.ctx, "Comma")
                close == expect(expr.ctx, "RightParen")
            IN  IF ~expr.ok THEN [ok |-> FALSE, args |-> args, end_span |-> NoSpan,
                                  expr |-> expr.expr, ctx |-> expr.ctx]
                ELSE IF comma.ok
                THEN parse_tuple_elements(<<expr.expr>> \o args, Iterate(ctx, comma.ctx))
                ELSE [ok |-> close.ok, args |-> <<expr.expr>> \o args,
                      end_span |-> close.span, expr |-> close.expr, ctx |-> close.ctx]
    IN  IF end.ok THEN [ok |-> TRUE, args |-> args, end_span |-> end.span, expr |-> None,
                        ctx |-> end.ctx]
        ELSE with_expr(parse_expression(ctx))

\* pub fn parse_primary_expression
\* the list after `(`, up to and including `)`
parse_tuple_elements(args, ctx) ==
    LET end == eat(ctx, "RightParen")
        with_expr(expr) ==
            LET comma == eat(expr.ctx, "Comma")
                close == expect(expr.ctx, "RightParen")
            IN  IF ~expr.ok THEN [ok |-> FALSE, args |-> args, end_span |-> NoSpan,
                                  expr |-> expr.expr, ctx |-> expr.ctx]
                ELSE IF comma.ok
                THEN parse_tuple_elements(Append(args, expr.expr), Iterate(ctx, comma.ctx))
                ELSE [ok |-> close.ok, args |-> Append(args, expr.expr),
                      end_span |-> close.span, expr |-> close.expr, ctx |-> close.ctx]
    IN  IF end.ok THEN [ok |-> TRUE, args |-> args, end_span |-> end.span, expr |-> None,
                        ctx |-> end.ctx]
        ELSE with_expr(parse_expression(ctx))

\* the elements of an inline array after the first, up to and including `]`
parse_array_elements(elements, ctx) ==
    LET end == eat(ctx, "RightSquare")
        sep == IF Len(elements) = 1 THEN expect(ctx, "Comma")
               ELSE [ok |-> TRUE, token |-> Tk("Eof"), span |-> NoSpan, expr |-> None,
                     ctx |-> ctx]
        with_element(element) ==
            LET comma == eat(element.ctx, "Comma")
                close == expect(element.ctx, "RightSquare")
            IN  IF ~element.ok
                THEN [ok |-> FALSE, elements |-> elements, end_span |-> NoSpan,
                      expr |-> element.expr, ctx |-> element.ctx]
                ELSE IF comma.ok
                THEN parse_array_elements(Append(elements, element.expr),
                                          Iterate(ctx, comma.ctx))
                ELSE [ok |-> close.ok, elements |-> Append(elements, element.expr),
                      end_span |-> close.span, expr |-> close.expr, ctx |-> close.ctx]
    IN  IF end.ok THEN [ok |-> TRUE, elements |-> elements, end_span |-> end.span,
                        expr |-> None, ctx |-> end.ctx]
        ELSE IF ~sep.ok THEN [ok |-> FALSE, elements |-> elements, end_span |-> NoSpan,
                              expr |-> sep.expr, ctx |-> sep.ctx]
        ELSE with_element(parse_spread_or_expression(sep.ctx))

\* Token::LeftSquare, after the first element: `; dimensions ]` or the
\* remaining elements of an inline array
parse_array_rest(span, first) ==
    LET semi == eat(first.ctx, "Semicolon")
        dimensions == parse_array_dimensions(semi.ctx)
        end == expect(dimensions.ctx, "RightSquare")
        with_elements(e) ==
            IF ~e.ok THEN Err(e.expr, e.ctx)
            ELSE Ok(ArrayInline(e.elements, SpanAdd(span, e.end_span)), e.ctx)
    IN  IF ~first.ok THEN first
        ELSE IF semi.ok THEN
            IF ~dimensions.ok THEN dimensions
            ELSE IF ~end.ok THEN Err(end.expr, end.ctx)
            ELSE IF first.expr.kind = "Spread"
            THEN Err(SyntaxError("spread_in_array_init",
                                 SpanAdd(span, first.expr.args[1].span)), end.ctx)
            ELSE Ok(ArrayInit(first.expr.args[1], dimensions.expr, SpanAdd(span, end.span)),
                    end.ctx)
        ELSE with_elements(parse_array_elements(<<first.expr>>, semi.ctx))

\* the identifier branch without the test of the flag
parse_identifier_or_init_unflagged(ident, ctx) ==
    LET next == peek(ctx) IN
    IF ~next.ok THEN Err(next.expr, next.ctx)
    ELSE IF next.token.token = "LeftCurly" THEN parse_circuit_init(ident, ctx)
    ELSE Ok(ident, ctx)

\* Token::Ident / Token::BigSelf: an identifier, or a circuit init when allowed
parse_identifier_or_init(ident, ctx) ==
    LET next == peek(ctx) IN
    IF ctx.fuzzy_struct_state THEN Ok(ident, ctx)
    ELSE IF ~next.ok THEN Err(next.expr, next.ctx)
    ELSE IF next.token.token = "LeftCurly" THEN parse_circuit_init(ident, ctx)
    ELSE Ok(ident, ctx)

\* Token::Int
parse_int_literal(token, span, c) ==
    LET type_ == eat_any(c, INT_TYPES) IN
    IF ~type_.ok THEN Ok(Implicit(token.value, span), type_.ctx)
    ELSE IF type_.token.token = "Field"
    THEN Ok(Field(token.value, SpanAdd(span, type_.span)), type_.ctx)
    ELSE IF type_.token.token = "Group"
    THEN Ok(GroupSingle(token.value, SpanAdd(span, type_.span)), type_.ctx)
    ELSE Ok(Integer(token_to_int_type(type_.token.token), token.value,
                    SpanAdd(span, type_.span)), type_.ctx)

\* Token::Address
parse_address_call(span, c) ==
    LET open == expect(c, "LeftParen")
        value == expect_any(open.ctx)
        end == expect(value.ctx, "RightParen")
    IN  IF ~open.ok THEN Err(open.expr, open.ctx)
        ELSE IF ~value.ok THEN Err(value.expr, value.ctx)
        ELSE IF value.token.token # "AddressLit"
        THEN Err(SyntaxError("address", value.span), value.ctx)
        ELSE IF ~end.ok THEN Err(end.expr, end.ctx)
        ELSE Ok(Address(value.token.value, SpanAdd(span, end.span)), end.ctx)

\* the token consumed by expect_any, matched
parse_primary_token(token, span, c) ==
    LET group == eat_group_partial(c)
        empty == eat(c, "RightSquare")
        with_args(a) ==
            IF ~a.ok THEN Err(a.expr, a.ctx)
            ELSE IF Len(a.args) = 1 THEN Ok(a.args[1], a.ctx)
            ELSE Ok(TupleInit(a.args, SpanAdd(span, a.end_span)), a.ctx)
    IN  CASE token.token = "Int" -> parse_int_literal(token, span, c)
          [] token.token = "True" -> Ok(Boolean("true", span), c)
          [] token.token = "False" -> Ok(Boolean("false", span), c)
          [] token.token = "AddressLit" -> Ok(Address(token.value, span), c)
          [] token.token = "Address" -> parse_address_call(span, c)
          [] token.token = "LeftParen" ->
                IF group.ok THEN Ok(GroupTuple(group.x, group.y, group.span), group.ctx)
                ELSE with_args(parse_tuple_elements(<<>>, c))
          [] token.token = "LeftSquare" ->
                IF empty.ok THEN Ok(ArrayInline(<<>>, SpanAdd(span, empty.span)), empty.ctx)
                ELSE parse_array_rest(span, parse_spread_or_expression(c))
          [] token.token \in {"Ident", "BigSelf"} ->
                parse_identifier_or_init(
                    Identifier(IF token.token = "Ident" THEN token.value
                               ELSE TokenToString(token), span), c)
          [] token.token \in {"Input", "LittleSelf"} ->
                Ok(Identifier(TokenToString(token), span), c)
          [] OTHER -> Err(SyntaxError("expression", span), c)

parse_primary_expression(ctx) ==
    LET first == expect_any(ctx) IN
    IF ~first.ok THEN Err(first.expr, first.ctx)
    ELSE parse_primary_token(first.token, first.span, first.ctx)

-----------------------------------------------------------------------------
(* The caller: another parser module holding the ParserContext invokes one *)
(* of the pub fns once on the stream.                                      *)

NoResult == [ok |-> FALSE, expr |-> None]

\* the caller's call `self.f()`: the context is replaced by the one f leaves
Invoke(name, r) ==
    /\ called = "none"
    /\ called' = name
    /\ result' = [ok |-> r.ok, expr |-> r.expr]
    /\ pos' = r.ctx.pos
    /\ fuzzy_struct_state' = r.ctx.fuzzy_struct_state
    /\ stalled' = r.ctx.stall
    /\ UNCHANGED <<tokens, entry_pos, entry_fuzzy>>

\* The outcomes of parse_expression_fuzzy at the positions p, p+1, ... of the
\* stream, last position first, each computed from those after it.  Only
\* the positions where a nested call can begin are recorded: a nested
\* parse_expression begins after ( [ , : ? .. or ..., a nested
\* parse_expression_fuzzy (a ternary's false-branch) after a colon.
Outcome(r) == [known |-> TRUE, ok |-> r.ok, expr |-> r.expr, pos |-> r.ctx.pos,
               fuzzy_struct_state |-> r.ctx.fuzzy_struct_state, stall |-> r.ctx.stall,
               entered |-> r.ctx.entered]
Unknown == [known |-> FALSE]
NestingTokens == {"LeftParen", "LeftSquare", "Comma", "Colon", "Question", "DotDot",
                  "DotDotDot"}

RECURSIVE Outcomes(_, _, _)
Outcomes(sub, q, p) ==
    LET before == IF q > 1 THEN tokens[q - 1].token ELSE "none"
        with_row(sub2) == IF Len(sub2) > 0 THEN Outcomes(sub2, q - 1, p) ELSE sub
    IN  IF q < p THEN sub
        ELSE with_row(Append(sub,
                 [restricted |-> IF before = "Colon"
                                 THEN Outcome(parse_expression_fuzzy(Ctx(q, TRUE, sub)))
                                 ELSE Unknown,
                  allowed |-> IF before \in NestingTokens
                              THEN Outcome(parse_expression_fuzzy(Ctx(q, FALSE, sub)))
                              ELSE Unknown]))

Here == Ctx(pos, fuzzy_struct_state, Outcomes(<<>>, Len(tokens) + 1, pos + 1))

ParseExpression == Invoke("parse_expression", parse_expression(Here))
ParseExpressionFuzzy == Invoke("parse_expression_fuzzy", parse_expression_fuzzy(Here))
ParseSpreadOrExpression == Invoke("parse_spread_or_expression", parse_spread_or_expression(Here))
ParseExpExpression == Invoke("parse_exp_expression", parse_exp_expression(Here))
ParseUnaryExpression == Invoke("parse_unary_expression", parse_unary_expression(Here))
ParseAccessExpression == Invoke("parse_access_expression", parse_access_expression(Here))
ParsePrimaryExpression == Invoke("parse_primary_expression", parse_primary_expression(Here))

Next ==
    \/ ParseExpression
    \/ ParseExpressionFuzzy
    \/ ParseSpreadOrExpression
    \/ ParseExpExpression
    \/ ParseUnaryExpression
    \/ ParseAccessExpression
    \/ ParsePrimaryExpression

\* a fresh context over one of the streams of S, the flag set either way
InitWith(S) ==
    /\ tokens \in S
    /\ pos = 1
    /\ fuzzy_struct_state \in BOOLEAN
    /\ result = NoResult
    /\ called = "none"
    /\ entry_pos = pos
    /\ entry_fuzzy = fuzzy_struct_state
    /\ stalled = FALSE


-----------------------------------------------------------------------------
(* Token streams                                                           *)

a == TIdent("a")
b == TIdent("b")
c == TIdent("c")
Foo == TIdent("Foo")
Bar == TIdent("Bar")
one == TInt("1")
two == TInt("2")
LeftParen == Tk("LeftParen")
RightParen == Tk("RightParen")
LeftSquare == Tk("LeftSquare")
RightSquare == Tk("RightSquare")
LeftCurly == Tk("LeftCurly")
RightCurly == Tk("RightCurly")
Colon == Tk("Colon")
Comma == Tk("Comma")
Question == Tk("Question")
DotDot == Tk("DotDot")
DotDotDot == Tk("DotDotDot")
Semicolon == Tk("Semicolon")
Add == Tk("Add")

\* what may follow an expression: the end of the stream, or a `;`
Tails == {<<>>, <<Semicolon>>}

\* concatenations x \o y
Cat(X, Y) == {x \o y : x \in X, y \in Y}

\* every stream of at most n tokens over the alphabet A
SeqsUpTo(A, n) == UNION {[1..k -> A] : k \in 0..n}


-----------------------------------------------------------------------------
(* Shapes: a node without its spans, for comparing trees                   *)

SNode(kind, op, value, args) == [kind |-> kind, op |-> op, value |-> value, args |-> args]

RECURSIVE Shape(_)
Shape(n) == SNode(n.kind, n.op, n.value, [i \in 1..Len(n.args) |-> Shape(n.args[i])])

SId(name) == SNode("Identifier", "", name, <<>>)
SImplicit(v) == SNode("Implicit", "", v, <<>>)
SInteger(t, v) == SNode("Integer", t, v, <<>>)
SBin(op, l, r) == SNode("Binary", op, "", <<l, r>>)
SUn(op, e) == SNode("Unary", op, "", <<e>>)
SNone == SNode("None", "", "", <<>>)
SMember(name, e) == SNode("CircuitImpliedVariableDefinition", "", name, <<SId(name), e>>)
SInit(name, members) == SNode("CircuitInit", "", name, <<SId(name)>> \o members)
SSpread(e) == SNode("Spread", "", "", <<e>>)
SExpression(e) == SNode("Expression", "", "", <<e>>)

\* the span from the start of token i to the end of token j
Range(i, j) == [lo |-> TokenSpan(i).lo, hi |-> TokenSpan(j).hi]

\* the stream begins with the tokens of p
StartsWith(p) == Len(tokens) >= Len(p) /\ SubSeq(tokens, 1, Len(p)) = p

\* the call was one of the two expression entry points
ExpressionCalled == called \in {"parse_expression", "parse_expression_fuzzy"}

\* The stream lets an expression end at its end: unrestricted, an identifier
\* looks at the token after it (is it `{`?) and fails when there is none, so
\* the stream ends in something else, or the call ran restricted.
CanEnd ==
    /\ tokens # <<>>
    /\ \/ tokens[Len(tokens)].token \notin {"Ident", "BigSelf"}
       \/ (called # "parse_expression" /\ entry_fuzzy)

\* the stream without the `;` that ends it
Body == IF tokens # <<>> /\ tokens[Len(tokens)].token = "Semicolon"
        THEN SubSeq(tokens, 1, Len(tokens) - 1) ELSE tokens

\* the pieces of s between the tokens of kind sep
RECURSIVE Split(_, _, _, _)
Split(s, sep, piece, i) ==
    IF i > Len(s) THEN <<piece>>
    ELSE IF s[i].token = sep THEN <<piece>> \o Split(s, sep, <<>>, i + 1)
    ELSE Split(s, sep, Append(piece, s[i]), i + 1)

\* x1 sep x2 sep ... xn
RECURSIVE Join(_, _)
Join(xs, sep) ==
    IF Len(xs) = 0 THEN <<>>
    ELSE IF Len(xs) = 1 THEN xs[1]
    ELSE xs[1] \o <<sep>> \o Join(Tail(xs), sep)

\* the tree of the form of F whose tokens are toks
ShapeIn(F, toks) == (CHOOSE f \in F : f.toks = toks).shape

-----------------------------------------------------------------------------
(* The streams of the default specification: every short stream over the   *)
(* tokens that drive the mode flag, and circuit initializers inside every  *)
(* nesting construct.                                                      *)

MaxLen == 4

CoreAlphabet == {a, LeftCurly, RightCurly, LeftParen, RightParen, Comma}

ShortStreams == SeqsUpTo(CoreAlphabet, MaxLen)

\* every proper prefix of s: the stream cut short somewhere
Prefixes(s) == {SubSeq(s, 1, k) : k \in 0..(Len(s) - 1)}

\* circuit initializers, each with the tree it denotes
InitForms ==
    { [toks |-> <<Foo, LeftCurly, RightCurly>>, shape |-> SInit("Foo", <<>>)],
      [toks |-> <<Foo, LeftCurly, a, RightCurly>>,
       shape |-> SInit("Foo", <<SMember("a", SNone)>>)],
      [toks |-> <<Foo, LeftCurly, a, Colon, one, RightCurly>>,
       shape |-> SInit("Foo", <<SMember("a", SImplicit("1"))>>)],
      [toks |-> <<Foo, LeftCurly, a, Colon, one, Comma, b, RightCurly>>,
       shape |-> SInit("Foo", <<SMember("a", SImplicit("1")), SMember("b", SNone)>>)] }

\* `+ Bar {`: the outer level goes on after the nested construct
OuterRest == <<Add, Bar, LeftCurly>>

\* a sub-expression x in each nesting position, then OuterRest; with the tree
\* expected when x is parsed unrestricted and the outer level restricted
NestedIn(x) ==
    { [ctxt |-> "paren",
       toks |-> <<LeftParen>> \o x.toks \o <<RightParen>> \o OuterRest,
       shape |-> SBin("Add", x.shape, SId("Bar"))],
      [ctxt |-> "array element",
       toks |-> <<LeftSquare>> \o x.toks \o <<RightSquare>> \o OuterRest,
       shape |-> SBin("Add", SNode("ArrayInline", "", "", <<SExpression(x.shape)>>),
                      SId("Bar"))],
      [ctxt |-> "spread element",
       toks |-> <<LeftSquare, DotDotDot>> \o x.toks \o <<RightSquare>> \o OuterRest,
       shape |-> SBin("Add", SNode("ArrayInline", "", "", <<SSpread(x.shape)>>), SId("Bar"))],
      [ctxt |-> "index",
       toks |-> <<a, LeftSquare>> \o x.toks \o <<RightSquare>> \o OuterRest,
       shape |-> SBin("Add", SNode("ArrayAccess", "", "", <<SId("a"), x.shape>>), SId("Bar"))],
      [ctxt |-> "slice left",
       toks |-> <<a, LeftSquare>> \o x.toks \o <<DotDot, RightSquare>> \o OuterRest,
       shape |-> SBin("Add", SNode("ArrayRangeAccess", "", "", <<SId("a"), x.shape, SNone>>),
                      SId("Bar"))],
      [ctxt |-> "slice right",
       toks |-> <<a, LeftSquare, DotDot>> \o x.toks \o <<RightSquare>> \o OuterRest,
       shape |-> SBin("Add", SNode("ArrayRangeAccess", "", "", <<SId("a"), SNone, x.shape>>),
                      SId("Bar"))],
      [ctxt |-> "slice both",
       toks |-> <<a, LeftSquare>> \o x.toks \o <<DotDot>> \o x.toks \o <<RightSquare>>
                \o OuterRest,
       shape |-> SBin("Add", SNode("ArrayRangeAccess", "", "", <<SId("a"), x.shape, x.shape>>),
                      SId("Bar"))],
      [ctxt |-> "call argument",
       toks |-> <<a, LeftParen, b, Comma>> \o x.toks \o <<RightParen>> \o OuterRest,
       shape |-> SBin("Add", SNode("Call", "", "", <<SId("a"), SId("b"), x.shape>>),
                      SId("Bar"))],
      [ctxt |-> "field value",
       toks |-> <<LeftParen, Bar, LeftCurly, c, Colon>> \o x.toks
                \o <<RightCurly, RightParen>> \o OuterRest,
       shape |-> SBin("Add", SInit("Bar", <<SMember("c", x.shape)>>), SId("Bar"))],
      [ctxt |-> "ternary true-branch",
       toks |-> <<a, Question>> \o x.toks \o <<Colon, b>> \o OuterRest,
       shape |-> SNode("Ternary", "", "",
                       <<SId("a"), x.shape, SBin("Add", SId("b"), SId("Bar"))>>)] }

NestedCases == UNION {NestedIn(x) : x \in InitForms}

InitStreams == Cat({x.toks : x \in InitForms}, Tails \cup {OuterRest})

NestedStreams == {n.toks : n \in NestedCases}

Init == InitWith(ShortStreams \cup InitStreams \cup NestedStreams
                 \cup UNION {Prefixes(s) : s \in NestedStreams})
Spec == Init /\ [][Next]_vars

-----------------------------------------------------------------------------
(* C1: whatever pub fn is called, on whatever stream and with the mode     *)
(* flag set either way, when the call returns - with an expression or with *)
(* an error - fuzzy_struct_state is what it was when the call was entered. *)
(* parse_expression sets the flag inside the call and puts it back; no     *)
(* other function leaves it changed.                                       *)
C1_FlagRestored == called # "none" => fuzzy_struct_state = entry_fuzzy

\* parse_expression, entered restricted, parsed `a {` as an initializer (so
\* ran unrestricted inside), failed after it, and returned restricted
C1_Witness ==
    /\ called = "parse_expression"
    /\ entry_fuzzy
    /\ StartsWith(<<a, LeftCurly>>)
    /\ pos >= 3
    /\ ~result.ok
    /\ fuzzy_struct_state

-----------------------------------------------------------------------------
(* C2: restricted (fuzzy_struct_state = TRUE), parse_expression_fuzzy on   *)
(* an identifier followed by `{` returns the plain Identifier and leaves   *)
(* the `{` as the next token; unrestricted (parse_expression, or the       *)
(* primary level entered with the flag FALSE), an identifier followed by a *)
(* braced member list returns the CircuitInit named by the identifier,     *)
(* having consumed through the matching `}`.                               *)
C2_Restricted ==
    (called \in {"parse_expression_fuzzy", "parse_primary_expression"} /\ entry_fuzzy
     /\ Len(tokens) >= 2 /\ tokens[1].token = "Ident" /\ tokens[2].token = "LeftCurly")
    => /\ result.ok
       /\ Shape(result.expr) = SId(tokens[1].value)
       /\ pos = 2
       /\ tokens[pos].token = "LeftCurly"

C2_Allowed ==
    \A x \in InitForms :
        ((called = "parse_expression" /\ tokens \in Cat({x.toks}, Tails))
         \/ (called = "parse_primary_expression" /\ ~entry_fuzzy /\ StartsWith(x.toks)
             /\ Len(tokens) > Len(x.toks)))
        => /\ result.ok
           /\ Shape(result.expr) = x.shape
           /\ result.expr.value = tokens[1].value
           /\ pos = Len(x.toks) + 1
           /\ tokens[pos - 1].token = "RightCurly"

C2_StructLiteralAmbiguity == C2_Restricted /\ C2_Allowed

\* `Foo { a : 1 }` parsed by parse_expression entered restricted
C2_Witness ==
    /\ called = "parse_expression"
    /\ entry_fuzzy
    /\ tokens = <<Foo, LeftCurly, a, Colon, one, RightCurly>>
    /\ result.ok
    /\ result.expr.kind = "CircuitInit"

-----------------------------------------------------------------------------
(* C3: during a restricted parse_expression_fuzzy call, a sub-expression   *)
(* in parentheses, in an array literal, in an index or slice bound, in a   *)
(* call argument, in an initializer's field value or in a ternary's true-  *)
(* branch is parsed unrestricted (an identifier followed by `{` there is a *)
(* CircuitInit), and after it the outer level is restricted again: the     *)
(* later `Bar {` is the Identifier Bar, its `{` left unconsumed.           *)
C3_Reentrant ==
    \A n \in NestedCases :
        (called = "parse_expression_fuzzy" /\ entry_fuzzy /\ tokens = n.toks)
        => /\ result.ok
           /\ Shape(result.expr) = n.shape
           /\ pos = Len(tokens)
           /\ tokens[pos].token = "LeftCurly"
           /\ fuzzy_struct_state

\* the field-value case: an initializer as the value of a field of an
\* initializer in parentheses, parsed during a restricted call
C3_Witness ==
    /\ called = "parse_expression_fuzzy"
    /\ entry_fuzzy
    /\ tokens = <<LeftParen, Bar, LeftCurly, c, Colon, Foo, LeftCurly, RightCurly,
                  RightCurly, RightParen>> \o OuterRest
    /\ result.ok
    /\ result.expr.args[1].kind = "CircuitInit"
    /\ result.expr.args[2].kind = "Identifier"

-----------------------------------------------------------------------------
(* Two binary operators in a row: x OP1 y OP2 z, for every pair of the     *)
(* twenty binary operator tokens, over identifier and literal operands.    *)

BinaryTokens == {"Or", "And", "BitOr", "BitXor", "BitAnd", "Eq", "NotEq", "Lt", "LtEq", "Gt",
                 "GtEq", "Shl", "Shr", "ShrSigned", "Add", "Minus", "Mul", "Div", "Mod", "Exp"}

OperandTriples == {<<a, b, c>>, <<one, two, TInt("3")>>, <<a, two, c>>}

BinaryStreams ==
    {<<x[1], Tk(o1), x[2], Tk(o2), x[3]>> \o t :
        x \in OperandTriples, o1 \in BinaryTokens, o2 \in BinaryTokens, t \in Tails}

\* the tree of a one-token operand
OperandShape(t) == IF t.token = "Ident" THEN SId(t.value) ELSE SImplicit(t.value)

\* the levels in the order the specification gives them, loosest first
LevelOf(k) ==
    CASE k = "Or" -> 1
      [] k = "And" -> 2
      [] k = "BitOr" -> 3
      [] k = "BitXor" -> 4
      [] k = "BitAnd" -> 5
      [] k \in {"Eq", "NotEq"} -> 6
      [] k \in {"Lt", "LtEq", "Gt", "GtEq"} -> 7
      [] k \in {"Shl", "Shr", "ShrSigned"} -> 8
      [] k \in {"Add", "Minus"} -> 9
      [] k \in {"Mul", "Div", "Mod"} -> 10
      [] k = "Exp" -> 11

\* the BinaryOperation the specification gives each token
OperationOf(k) ==
    CASE k = "NotEq" -> "Ne"
      [] k = "LtEq" -> "Le"
      [] k = "GtEq" -> "Ge"
      [] k = "Minus" -> "Sub"
      [] k = "Exp" -> "Pow"
      [] OTHER -> k

\* mixes with the levels that are not binary: ternary, cast, prefix, postfix
SCast(e, t) == SNode("Cast", "", t, <<e>>)
STernary(x, y, z) == SNode("Ternary", "", "", <<x, y, z>>)
MixedLevels ==
    { [toks |-> <<a, Tk("Or"), b, Question, c, Colon, one>>,
       shape |-> STernary(SBin("Or", SId("a"), SId("b")), SId("c"), SImplicit("1"))],
      [toks |-> <<a, Question, b, Colon, c, Tk("Or"), one>>,
       shape |-> STernary(SId("a"), SId("b"), SBin("Or", SId("c"), SImplicit("1")))],
      [toks |-> <<a, Tk("Exp"), b, Tk("As"), Tk("U8")>>,
       shape |-> SBin("Pow", SId("a"), SCast(SId("b"), "u8"))],
      [toks |-> <<a, Tk("As"), Tk("U8"), Tk("Exp"), one>>,
       shape |-> SBin("Pow", SCast(SId("a"), "u8"), SImplicit("1"))],
      [toks |-> <<a, Tk("Mul"), b, Tk("As"), Tk("U8")>>,
       shape |-> SBin("Mul", SId("a"), SCast(SId("b"), "u8"))],
      [toks |-> <<Tk("Not"), a, Tk("As"), Tk("U8")>>,
       shape |-> SCast(SUn("Not", SId("a")), "u8")],
      [toks |-> <<Tk("Minus"), a, Tk("As"), Tk("U8"), Tk("As"), Tk("Field")>>,
       shape |-> SCast(SCast(SUn("Negate", SId("a")), "u8"), "field")],
      [toks |-> <<Tk("Minus"), a, LeftSquare, one, RightSquare>>,
       shape |-> SUn("Negate", SNode("ArrayAccess", "", "", <<SId("a"), SImplicit("1")>>))],
      [toks |-> <<Tk("Not"), a, Tk("Dot"), b, Tk("Exp"), one>>,
       shape |-> SBin("Pow", SUn("Not", SNode("CircuitMemberAccess", "", "b",
                                              <<SId("a"), SId("b")>>)),
                      SImplicit("1"))] }

InitBinary == InitWith(BinaryStreams \cup {m.toks : m \in MixedLevels})
SpecBinary == InitBinary /\ [][Next]_vars


\* the stream is x OP1 y OP2 z and what follows lets the expression end: a
\* token, or nothing after a literal or under the restriction (unrestricted,
\* an identifier looks at the token after it and fails at the end of input)
TwoOperators == tokens \in BinaryStreams /\ CanEnd

-----------------------------------------------------------------------------
(* C4: on every left-associative level, for every two operator tokens OP1, *)
(* OP2 of the level, x OP1 y OP2 z is Binary(op2, Binary(op1, x, y), z),   *)
(* each token mapped to its own BinaryOperation.                           *)
C4_LeftAssociative ==
    (ExpressionCalled /\ TwoOperators
     /\ LevelOf(tokens[2].token) = LevelOf(tokens[4].token)
     /\ tokens[2].token # "Exp")
    => /\ result.ok
       /\ pos = 6
       /\ Shape(result.expr)
            = SBin(OperationOf(tokens[4].token),
                   SBin(OperationOf(tokens[2].token), OperandShape(tokens[1]),
                        OperandShape(tokens[3])),
                   OperandShape(tokens[5]))

\* a >> b >>> c, parsed by parse_expression
C4_Witness ==
    /\ called = "parse_expression"
    /\ TwoOperators
    /\ tokens[2].token = "Shr"
    /\ tokens[4].token = "ShrSigned"
    /\ result.ok
    /\ result.expr.op = "ShrSigned"
    /\ result.expr.args[1].op = "Shr"

-----------------------------------------------------------------------------
(* C6: the levels bind, loosest first: ternary, or, and, bit-or, bit-xor,  *)
(* bit-and, equality, relational, shift, additive, multiplicative,         *)
(* exponential, cast, prefix unary, postfix access.  With LO of a looser   *)
(* binary level than HI: x LO y HI z is LO(x, HI(y, z)) and x HI y LO z is *)
(* LO(HI(x, y), z).                                                        *)
C6_BinaryLevels ==
    (ExpressionCalled /\ TwoOperators
     /\ LevelOf(tokens[2].token) # LevelOf(tokens[4].token))
    => /\ result.ok
       /\ pos = 6
       /\ Shape(result.expr)
            = IF LevelOf(tokens[2].token) < LevelOf(tokens[4].token)
              THEN SBin(OperationOf(tokens[2].token), OperandShape(tokens[1]),
                        SBin(OperationOf(tokens[4].token), OperandShape(tokens[3]),
                             OperandShape(tokens[5])))
              ELSE SBin(OperationOf(tokens[4].token),
                        SBin(OperationOf(tokens[2].token), OperandShape(tokens[1]),
                             OperandShape(tokens[3])),
                        OperandShape(tokens[5]))

C6_OtherLevels ==
    \A m \in MixedLevels :
        (ExpressionCalled /\ tokens = m.toks /\ (called = "parse_expression_fuzzy" => entry_fuzzy))
        => /\ result.ok
           /\ pos = Len(tokens) + 1
           /\ Shape(result.expr) = m.shape

C6_Precedence == C6_BinaryLevels /\ C6_OtherLevels

\* a << b + c: the tighter level on the right, under the looser
C6_Witness ==
    /\ called = "parse_expression_fuzzy"
    /\ TwoOperators
    /\ tokens[2].token = "Shl"
    /\ tokens[4].token = "Add"
    /\ result.ok
    /\ result.expr.op = "Shl"
    /\ result.expr.args[2].op = "Add"

-----------------------------------------------------------------------------
(* Chains of exponentiations: e1 ** e2 ** ... ** en over cast-level        *)
(* operands.                                                               *)

MaxOperands == 4

ExpOperands ==
    { [toks |-> <<a>>, shape |-> SId("a")],
      [toks |-> <<one>>, shape |-> SImplicit("1")],
      [toks |-> <<Tk("Minus"), b>>, shape |-> SUn("Negate", SId("b"))],
      [toks |-> <<c, Tk("As"), Tk("U8")>>, shape |-> SCast(SId("c"), "u8")] }

ExpStreams ==
    UNION { {Join([i \in 1..n |-> es[i].toks], Tk("Exp")) \o t : es \in [1..n -> ExpOperands],
                                                                t \in Tails}
            : n \in 1..MaxOperands }

InitExp == InitWith(ExpStreams)
SpecExp == InitExp /\ [][Next]_vars

\* Pow(e1, Pow(e2, ... Pow(e(n-1), en)))
RECURSIVE PowChain(_)
PowChain(es) == IF Len(es) = 1 THEN es[1] ELSE SBin("Pow", es[1], PowChain(Tail(es)))

ExpOperandsOf(s) == LET ps == Split(s, "Exp", <<>>, 1) IN
                    [i \in 1..Len(ps) |-> ShapeIn(ExpOperands, ps[i])]

-----------------------------------------------------------------------------
(* C5: n >= 1 cast-level operands separated by `**` parse, by              *)
(* parse_exp_expression, to e1 when n = 1 and otherwise to                 *)
(* Pow(e1, Pow(e2, ... Pow(e(n-1), en))), the operands in source order.    *)
C5_RightAssociative ==
    ((ExpressionCalled \/ called = "parse_exp_expression") /\ tokens \in ExpStreams /\ CanEnd)
    => /\ result.ok
       /\ pos = Len(Body) + 1
       /\ Shape(result.expr) = PowChain(ExpOperandsOf(Body))

\* a ** 1 ** -b
C5_Witness ==
    /\ called = "parse_exp_expression"
    /\ tokens = <<a, Tk("Exp"), one, Tk("Exp"), Tk("Minus"), b>>
    /\ entry_fuzzy
    /\ result.ok
    /\ result.expr.op = "Pow"
    /\ result.expr.args[1].kind = "Identifier"
    /\ result.expr.args[2].op = "Pow"

-----------------------------------------------------------------------------
(* Prefix operators: a run of ! - ~ before an operand.                     *)

MaxPrefix == 3

\* the operand forms, each with the node it parses to when it starts the
\* stream
UnaryOperands ==
    { [toks |-> <<one>>, node |-> Implicit("1", TokenSpan(1))],
      [toks |-> <<one, Tk("U8")>>, node |-> Integer("u8", "1", Range(1, 2))],
      [toks |-> <<one, Tk("Field")>>, node |-> Field("1", Range(1, 2))],
      [toks |-> <<a>>, node |-> Identifier("a", TokenSpan(1))],
      [toks |-> <<Tk("True")>>, node |-> Boolean("true", TokenSpan(1))],
      [toks |-> <<LeftParen, one, RightParen>>, node |-> Implicit("1", TokenSpan(2))],
      [toks |-> <<a, LeftSquare, one, RightSquare>>,
       node |-> ArrayAccess(Identifier("a", TokenSpan(1)), Implicit("1", TokenSpan(3)),
                            Range(1, 4))] }

UnaryTokens == {"Not", "Minus", "BitNot"}

UnaryStreams ==
    {[i \in 1..Len(p) |-> Tk(p[i])] \o e.toks \o t :
        p \in SeqsUpTo(UnaryTokens, MaxPrefix), e \in UnaryOperands, t \in Tails}

InitUnary == InitWith(UnaryStreams)
SpecUnary == InitUnary /\ [][Next]_vars

\* the node n, k tokens further on in the stream
RECURSIVE Shifted(_, _)
Shifted(n, k) ==
    [n EXCEPT !.span = [lo |-> @.lo + 2 * k, hi |-> @.hi + 2 * k],
              !.args = [i \in 1..Len(n.args) |-> Shifted(n.args[i], k)]]

\* how many prefix operator tokens the stream begins with
RECURSIVE PrefixLen(_, _)
PrefixLen(s, i) ==
    IF i <= Len(s) /\ s[i].token \in UnaryTokens THEN PrefixLen(s, i + 1) ELSE i - 1

UnaryOf(k) == CASE k = "Not" -> "Not" [] k = "Minus" -> "Negate" [] k = "BitNot" -> "BitNot"

\* The operator tokens 1..i applied to e, the nearest to the operand first:
\* a Negate on an Integer or Implicit literal is that literal with `-` put
\* before its text, any other application a Unary node; either way the span
\* starts at the operator token.
RECURSIVE Prefixed(_, _, _)
Prefixed(s, i, e) ==
    IF i = 0 THEN e
    ELSE LET span == [lo |-> TokenSpan(i).lo, hi |-> e.span.hi] IN
         Prefixed(s, i - 1,
                  IF s[i].token = "Minus" /\ e.kind \in {"Integer", "Implicit"}
                  THEN [e EXCEPT !.value = "-" \o @, !.span = span]
                  ELSE Unary(UnaryOf(s[i].token), e, span))

-----------------------------------------------------------------------------
(* C7: parse_unary_expression applies the prefix operators innermost       *)
(* first; Negate applied to what is then directly an Integer-with-type or  *)
(* Implicit literal gives the same kind of literal with `-` before its     *)
(* text and the span extended over the operator token, and no Unary node;  *)
(* every other application wraps the operand in a Unary node.              *)
C7_NegationFolding ==
    ((ExpressionCalled \/ called = "parse_unary_expression") /\ tokens \in UnaryStreams
     /\ CanEnd)
    => LET k == PrefixLen(Body, 1)
           operand == CHOOSE e \in UnaryOperands : e.toks = SubSeq(Body, k + 1, Len(Body))
       IN  /\ result.ok
           /\ pos = Len(Body) + 1
           /\ result.expr = Prefixed(Body, k, Shifted(operand.node, k))

\* ! - - 1: two folds into the literal --1, then a Unary(Not) around it
C7_Witness ==
    /\ called = "parse_unary_expression"
    /\ tokens = <<Tk("Not"), Tk("Minus"), Tk("Minus"), one>>
    /\ result.ok
    /\ result.expr.kind = "Unary"
    /\ result.expr.op = "Not"
    /\ result.expr.args[1] = Implicit("--1", Range(2, 4))

-----------------------------------------------------------------------------
(* Array literals: [], [e1, ..., en], [e; dims] and [...e; dims].          *)

MaxElems == 3

ElemForms ==
    { [toks |-> <<a>>, shape |-> SExpression(SId("a"))],
      [toks |-> <<one, Add, b>>,
       shape |-> SExpression(SBin("Add", SImplicit("1"), SId("b")))],
      [toks |-> <<DotDotDot, a>>, shape |-> SSpread(SId("a"))],
      [toks |-> <<DotDotDot, LeftSquare, c, RightSquare>>,
       shape |-> SSpread(SNode("ArrayInline", "", "", <<SExpression(SId("c"))>>))] }

DimForms ==
    { [toks |-> <<TInt("4")>>, shape |-> Shape(ArrayDimensions(<<Dimension("4")>>))],
      [toks |-> <<LeftParen, two, Comma, TInt("3"), RightParen>>,
       shape |-> Shape(ArrayDimensions(<<Dimension("2"), Dimension("3")>>))] }

InlineStreams ==
    UNION { {<<LeftSquare>> \o Join([i \in 1..n |-> es[i].toks], Comma) \o <<RightSquare>> \o t :
                es \in [1..n -> ElemForms], t \in Tails}
            : n \in 0..MaxElems }

RepeatStreams ==
    {<<LeftSquare>> \o e.toks \o <<Semicolon>> \o d.toks \o <<RightSquare>> \o t :
        e \in ElemForms, d \in DimForms, t \in Tails}

ArrayStreams == InlineStreams \cup RepeatStreams

InitArray == InitWith(ArrayStreams)
SpecArray == InitArray /\ [][Next]_vars

\* the tokens between the brackets of the literal the stream holds
Inside == SubSeq(Body, 2, Len(Body) - 1)

ElementsOf(s) == IF s = <<>> THEN <<>>
                 ELSE LET ps == Split(s, "Comma", <<>>, 1) IN
                      [i \in 1..Len(ps) |-> ShapeIn(ElemForms, ps[i])]

\* the element before the `;` of a repeat literal, and the dimensions after
RepeatElement == ShapeIn(ElemForms, Split(Inside, "Semicolon", <<>>, 1)[1])
RepeatDims == LET i == Len(Split(Inside, "Semicolon", <<>>, 1)[1]) + 2 IN
              ShapeIn(DimForms, SubSeq(Inside, i, Len(Inside)))

PrimaryCalled == ExpressionCalled \/ called \in {"parse_primary_expression",
                                                 "parse_access_expression",
                                                 "parse_unary_expression",
                                                 "parse_exp_expression"}

-----------------------------------------------------------------------------
(* C8: `[]` is an ArrayInline without elements; `[e1, ..., en]`, n >= 1,   *)
(* each element an expression or `...expr`, is an ArrayInline of exactly   *)
(* those n elements in order, each tagged Expression or Spread as written; *)
(* `[e; dims]` with e an expression is an ArrayInit of e and dims;         *)
(* `[...e; dims]` is the error spread_in_array_init.                       *)
C8_ArrayLiterals ==
    /\ (PrimaryCalled /\ tokens \in InlineStreams)
       => /\ result.ok
          /\ pos = Len(Body) + 1
          /\ Shape(result.expr) = SNode("ArrayInline", "", "", ElementsOf(Inside))
    /\ (PrimaryCalled /\ tokens \in RepeatStreams /\ RepeatElement.kind = "Expression")
       => /\ result.ok
          /\ pos = Len(Body) + 1
          /\ Shape(result.expr) = SNode("ArrayInit", "", "", <<RepeatElement.args[1], RepeatDims>>)
    /\ (PrimaryCalled /\ tokens \in RepeatStreams /\ RepeatElement.kind = "Spread")
       => /\ ~result.ok
          /\ result.expr.value = "spread_in_array_init"

\* [...a, 1 + b, a]
C8_Witness ==
    /\ called = "parse_primary_expression"
    /\ tokens = <<LeftSquare, DotDotDot, a, Comma, one, Add, b, Comma, a, RightSquare>>
    /\ result.ok
    /\ result.expr.kind = "ArrayInline"
    /\ Len(result.expr.args) = 3
    /\ result.expr.args[1].kind = "Spread"
    /\ result.expr.args[2].kind = "Expression"

-----------------------------------------------------------------------------
(* Indexing and slicing: base[i], base[l..r], base[..r], base[l..],        *)
(* base[..], and the same without the closing bracket.                     *)

\* the expressions written as an index or a bound
BoundForms ==
    { [toks |-> <<one>>, shape |-> SImplicit("1")],
       [toks |-> <<b>>, shape |-> SId("b")],
       [toks |-> <<b, Add, one>>, shape |-> SBin("Add", SId("b"), SImplicit("1"))],
       [toks |-> <<Tk("Minus"), two>>, shape |-> SImplicit("-2")],
       [toks |-> <<b, LeftSquare, one, RightSquare>>,
        shape |-> SNode("ArrayAccess", "", "", <<SId("b"), SImplicit("1")>>)] }

Absent == [toks |-> <<>>, shape |-> SNone]

SRange(array, left, right) == SNode("ArrayRangeAccess", "", "", <<array, left, right>>)

\* the bracket forms after the base `a`, each without its closing bracket
SliceCases ==
    {[toks |-> <<a, LeftSquare>> \o l.toks \o <<DotDot>> \o r.toks,
      shape |-> SRange(SId("a"), l.shape, r.shape)] :
        l \in BoundForms \cup {Absent}, r \in BoundForms \cup {Absent}}
    \cup {[toks |-> <<a, LeftSquare>> \o i.toks,
           shape |-> SNode("ArrayAccess", "", "", <<SId("a"), i.shape>>)] : i \in BoundForms}

ClosedStreams == {cs.toks \o <<RightSquare>> \o t : cs \in SliceCases, t \in Tails}
UnclosedStreams == {cs.toks \o t : cs \in SliceCases, t \in Tails}
SliceStreams == ClosedStreams \cup UnclosedStreams

InitSlice == InitWith(SliceStreams)
SpecSlice == InitSlice /\ [][Next]_vars

AccessCalled == ExpressionCalled \/ called \in {"parse_access_expression",
                                                "parse_unary_expression",
                                                "parse_exp_expression"}

-----------------------------------------------------------------------------
(* C9: after `[` on a base, `l..r`, `..r`, `l..` and `..` before `]` give  *)
(* an ArrayRangeAccess with both, only the right, only the left, or        *)
(* neither bound, and a plain expression before `]` gives an ArrayAccess;  *)
(* the closing `]` is required and consumed.                               *)
C9_Slicing ==
    /\ \A cs \in SliceCases :
          (AccessCalled /\ Body = cs.toks \o <<RightSquare>>)
          => /\ result.ok
             /\ pos = Len(Body) + 1
             /\ Shape(result.expr) = cs.shape
    /\ (AccessCalled /\ tokens \in UnclosedStreams) => ~result.ok

\* a[..b + 1]
C9_Witness ==
    /\ called = "parse_access_expression"
    /\ tokens = <<a, LeftSquare, DotDot, b, Add, one, RightSquare>>
    /\ result.ok
    /\ result.expr.kind = "ArrayRangeAccess"
    /\ result.expr.args[2].kind = "None"
    /\ result.expr.args[3].kind = "Binary"
    /\ pos = 8

-----------------------------------------------------------------------------
(* C10: the node returned by a successful parse_expression or              *)
(* parse_expression_fuzzy has a span that starts where the first token     *)
(* the call consumed starts and ends where the last token it consumed      *)
(* ends, whatever the shape of the expression.                             *)
C10_SpanRoundTrip ==
    (ExpressionCalled /\ result.ok)
    => result.expr.span = Range(entry_pos, pos - 1)

-----------------------------------------------------------------------------
(* The four identifier tokens at the primary level: a name, Self, input,   *)
(* self, each followed by a braced member list or by something else.       *)

BigSelf == Tk("BigSelf")
Input == Tk("Input")
LittleSelf == Tk("LittleSelf")

IdentHeads == {Foo, BigSelf, Input, LittleSelf}

HeadName(t) == IF t.token = "Ident" THEN t.value ELSE TokenToString(t)

\* the member lists of InitForms, without the name before them
MemberLists == {[toks |-> Tail(x.toks), members |-> Tail(x.shape.args)] : x \in InitForms}

IdentRests == {<<Semicolon>>, <<Add, b>>, <<RightParen>>}

IdentStreams ==
    {<<h>> \o m.toks \o t : h \in IdentHeads, m \in MemberLists, t \in Tails}
        \cup {<<h>> \o r : h \in IdentHeads, r \in IdentRests}

InitIdent == InitWith(IdentStreams)
SpecIdent == InitIdent /\ [][Next]_vars

MembersAfter(s) == (CHOOSE m \in MemberLists :
                        Len(s) > Len(m.toks) /\ SubSeq(s, 2, Len(m.toks) + 1) = m.toks)

\* C11: parse_primary_expression on a name, Self, input or self: with
\* initializers allowed and `{` next, the result is the CircuitInit named by
\* that identifier, consumed through its `}`; otherwise the result is the
\* plain Identifier and only the identifier token is consumed.
C11_SpecialIdentifiers ==
    (called = "parse_primary_expression" /\ tokens \in IdentStreams)
    => IF ~entry_fuzzy /\ tokens[2].token = "LeftCurly"
       THEN /\ result.ok
            /\ Shape(result.expr) = SInit(HeadName(tokens[1]), MembersAfter(Body).members)
            /\ pos = Len(Body) + 1
       ELSE /\ result.ok
            /\ Shape(result.expr) = SId(HeadName(tokens[1]))
            /\ pos = 2

-----------------------------------------------------------------------------
(* Failing parses.  A stream is a lead the caller has already consumed,    *)
(* then a case: either a prefix after which an expression must start,      *)
(* followed by a token that starts none (or by the end of the stream), or  *)
(* a construct whose required token is missing.  Each case names the error *)
(* of its failing step and where the cursor is when that step fails.       *)

Leads == {<<>>, <<Semicolon>>, <<a, Semicolon>>}

\* prefixes after which the parser is about to parse an operand
OperandPrefixes ==
    { <<>>, <<a, Add>>, <<Tk("Minus")>>, <<LeftParen>>, <<LeftSquare>>,
      <<LeftSquare, DotDotDot>>, <<a, LeftSquare>>, <<a, LeftSquare, DotDot>>,
      <<a, LeftParen>>, <<LeftParen, Foo, LeftCurly, a, Colon>>, <<a, Question>>,
      <<a, Question, b, Colon>>, <<a, Tk("Exp")>> }

\* tokens that start no expression
NonStarters == {Comma, Colon, RightCurly, Semicolon, Tk("Eq")}

Suffixes == {<<>>, <<a>>, <<RightParen, Semicolon>>}

\* at: the cursor when the failing step returns, counted within the case
NoOperandCases ==
    { [toks |-> p \o <<f>> \o s, what |-> "expression", span |-> Len(p) + 1,
       at |-> Len(p) + 2] : p \in OperandPrefixes, f \in NonStarters, s \in Suffixes }

EndOfInputCases ==
    { [toks |-> p, what |-> "unexpected_eof", span |-> 0, at |-> Len(p) + 1] :
        p \in OperandPrefixes }

Case(toks, what, span, at) == [toks |-> toks, what |-> what, span |-> span, at |-> at]

AddressKw == Tk("Address")

MissingCases ==
    { Case(<<LeftParen, a, Semicolon>>, "RightParen", 3, 3),
      Case(<<a, LeftSquare, b, Semicolon>>, "RightSquare", 4, 4),
      Case(<<a, LeftSquare, b, DotDot, c, Semicolon>>, "RightSquare", 6, 6),
      Case(<<a, LeftSquare, DotDot, c, Semicolon>>, "RightSquare", 5, 5),
      Case(<<a, LeftParen, b, Semicolon>>, "RightParen", 4, 4),
      Case(<<a, Question, b, Semicolon>>, "Colon", 4, 4),
      Case(<<LeftParen, Foo, LeftCurly, a, Semicolon>>, "RightCurly", 5, 5),
      Case(<<LeftParen, Foo, LeftCurly, one>>, "ident", 4, 4),
      Case(<<a, Tk("Dot"), Add>>, "int or ident", 3, 3),
      Case(<<a, Tk("DoubleColon"), one>>, "ident", 3, 3),
      Case(<<AddressKw, a>>, "LeftParen", 2, 2),
      Case(<<AddressKw, LeftParen, a, RightParen>>, "address", 3, 4),
      Case(<<AddressKw, LeftParen, TAddressLit("aleo1"), Semicolon>>, "RightParen", 4, 4),
      Case(<<LeftSquare, a, b>>, "Comma", 3, 3),
      Case(<<LeftSquare, a, Comma, b, c>>, "RightSquare", 5, 5),
      Case(<<LeftSquare, a, Semicolon, Add, RightSquare>>, "LeftParen", 4, 4),
      Case(<<LeftSquare, a, Semicolon, LeftParen, one, Semicolon>>, "RightParen", 6, 6),
      Case(<<LeftSquare, a, Semicolon, two, Semicolon>>, "RightSquare", 5, 5),
      Case(<<a, Tk("As"), Add>>, "type", 3, 3) }

ErrorCases == NoOperandCases \cup EndOfInputCases \cup MissingCases

ErrorStreams == {l \o e.toks : l \in Leads, e \in ErrorCases}

\* the caller has consumed a lead: the cursor is at the first token after it
InitErrors ==
    /\ tokens \in ErrorStreams
    /\ pos \in {Len(l) + 1 : l \in {k \in Leads : Len(k) <= Len(tokens)
                                                   /\ SubSeq(tokens, 1, Len(k)) = k}}
    /\ fuzzy_struct_state \in BOOLEAN
    /\ result = NoResult
    /\ called = "none"
    /\ entry_pos = pos
    /\ entry_fuzzy = fuzzy_struct_state
    /\ stalled = FALSE

SpecErrors == InitErrors /\ [][Next]_vars

Entered == SubSeq(tokens, entry_pos, Len(tokens))

FailFastCalled == called \in {"parse_expression", "parse_expression_fuzzy",
                              "parse_spread_or_expression"}

ErrorOf(e) ==
    IF e.what = "unexpected_eof" THEN SyntaxError("unexpected_eof", NoSpan)
    ELSE SyntaxError(e.what, TokenSpan(entry_pos - 1 + e.span))

\* C12: when a step inside parse_expression, parse_expression_fuzzy or
\* parse_spread_or_expression fails, the call returns that step's error and
\* no expression, the cursor is where it was when the step failed (nothing
\* is consumed after it, nothing consumed before it is given back), and the
\* cursor is never before its position on entry.
C12_FailFast ==
    /\ called # "none" => pos >= entry_pos
    /\ \A e \in ErrorCases :
          (FailFastCalled /\ Entered = e.toks)
          => /\ ~result.ok
             /\ result.expr = ErrorOf(e)
             /\ pos = entry_pos - 1 + e.at

\* `; ( a ;` entered after the lead: `)` is missing at the second `;`
C12_Witness ==
    /\ called = "parse_spread_or_expression"
    /\ tokens = <<Semicolon, LeftParen, a, Semicolon>>
    /\ entry_pos = 2
    /\ ~result.ok
    /\ result.expr = SyntaxError("RightParen", TokenSpan(4))
    /\ pos = 4

-----------------------------------------------------------------------------
(* Ternaries: chains c1 ? t1 : c2 ? t2 : ... : f of up to MaxChain links,  *)
(* with or-level conditions and with a name, a ternary or a circuit        *)
(* initializer as true-branch.                                             *)

MaxChain == 2

Form(toks, shape) == [toks |-> toks, shape |-> shape]

Conditions == {Form(<<a>>, SId("a")), Form(<<a, Tk("Or"), b>>, SBin("Or", SId("a"), SId("b")))}

TrueBranches ==
    { Form(<<b>>, SId("b")),
      Form(<<b, Question, c, Colon, one>>, STernary(SId("b"), SId("c"), SImplicit("1"))),
      Form(<<Foo, LeftCurly, RightCurly>>, SInit("Foo", <<>>)) }

FalseBranches == {Form(<<c>>, SId("c")),
                  Form(<<c, Tk("Or"), one>>, SBin("Or", SId("c"), SImplicit("1")))}

RECURSIVE Chains(_)
Chains(n) ==
    IF n = 0 THEN FalseBranches
    ELSE {Form(x.toks \o <<Question>> \o t.toks \o <<Colon>> \o f.toks,
               STernary(x.shape, t.shape, f.shape)) :
            x \in Conditions, t \in TrueBranches, f \in Chains(n - 1)}

TernaryForms == UNION {Chains(n) : n \in 1..MaxChain}
TernaryStreams == Cat({f.toks : f \in TernaryForms}, Tails)

\* a false-branch that is a name followed by a braced member list
FuzzyFalse == <<a, Question, b, Colon, Foo, LeftCurly, RightCurly>>

\* c ? t, then a token that is no `:`; at: where that token is
NoColonCases ==
    {[toks |-> x.toks \o <<Question>> \o t.toks \o s, at |-> Len(x.toks) + Len(t.toks) + 2] :
        x \in Conditions, t \in TrueBranches,
        s \in {<<Semicolon>>, <<Comma, c>>, <<RightParen>>}}
NoColonStreams == {x.toks : x \in NoColonCases}

InitTernary == InitWith(TernaryStreams \cup {FuzzyFalse} \cup NoColonStreams)
SpecTernary == InitTernary /\ [][Next]_vars

NoColonAt == (CHOOSE x \in NoColonCases : x.toks = tokens).at

\* C13: parse_expression_fuzzy (also entered through parse_expression)
\* parses c ? t : f to Ternary(c, t, f), c an or-level expression, t read
\* unrestricted (a circuit initializer is allowed there, and so is a whole
\* ternary), f read by parse_expression_fuzzy itself, so that a chain nests
\* to the right: a ? b : c ? d : e is Ternary(a, b, Ternary(c, d, e)) and
\* a restricted call keeps its false-branch restricted; without `:` after
\* the true-branch the call fails at the token found there.
C13_Chains ==
    (ExpressionCalled /\ tokens \in TernaryStreams /\ CanEnd)
    => /\ result.ok
       /\ Shape(result.expr) = ShapeIn(TernaryForms, Body)
       /\ pos = Len(Body) + 1

C13_FalseBranch ==
    (ExpressionCalled /\ tokens = FuzzyFalse)
    => /\ result.ok
       /\ IF called = "parse_expression_fuzzy" /\ entry_fuzzy
          THEN /\ Shape(result.expr) = STernary(SId("a"), SId("b"), SId("Foo"))
               /\ pos = 6
          ELSE /\ Shape(result.expr) = STernary(SId("a"), SId("b"), SInit("Foo", <<>>))
               /\ pos = 8

C13_MissingColon ==
    (ExpressionCalled /\ tokens \in NoColonStreams)
    => /\ ~result.ok
       /\ result.expr = SyntaxError("Colon", TokenSpan(NoColonAt))
       /\ pos = NoColonAt

C13_TernaryNesting == C13_Chains /\ C13_FalseBranch /\ C13_MissingColon

\* a ? b : a ? b : c ;  parsed by a restricted parse_expression_fuzzy
C13_Witness ==
    /\ called = "parse_expression_fuzzy"
    /\ entry_fuzzy
    /\ tokens = <<a, Question, b, Colon, a, Question, b, Colon, c, Semicolon>>
    /\ result.ok
    /\ Shape(result.expr) = STernary(SId("a"), SId("b"), STernary(SId("a"), SId("b"), SId("c")))
    /\ pos = 10

-----------------------------------------------------------------------------
(* Parenthesized lists: ( ), ( e1, ..., en ) and ( e1, ..., en, ).         *)

MaxItems == 3

ItemForms ==
    { Form(<<a>>, SId("a")),
      Form(<<one>>, SImplicit("1")),
      Form(<<Foo, LeftCurly, RightCurly>>, SInit("Foo", <<>>)),
      Form(<<LeftParen, c, RightParen>>, SId("c")) }

ListStreams ==
    UNION { {<<LeftParen>> \o Join([i \in 1..n |-> es[i].toks], Comma) \o k
                 \o <<RightParen>> \o t :
                es \in [1..n -> ItemForms],
                k \in IF n = 0 THEN {<<>>} ELSE {<<>>, <<Comma>>},
                t \in Tails}
            : n \in 0..MaxItems }

InitTuple == InitWith(ListStreams)
SpecTuple == InitTuple /\ [][Next]_vars

\* the tokens between the parentheses, a trailing comma left out
Listed == IF Inside # <<>> /\ Inside[Len(Inside)].token = "Comma"
          THEN SubSeq(Inside, 1, Len(Inside) - 1) ELSE Inside

ItemsOf(s) == IF s = <<>> THEN <<>>
              ELSE LET ps == Split(s, "Comma", <<>>, 1) IN
                   [i \in 1..Len(ps) |-> ShapeIn(ItemForms, ps[i])]

\* C14: `(` that starts no group-coordinate tuple, then a comma-separated
\* list with or without a trailing comma, then `)`: one element gives that
\* element itself, with no node for the parentheses; two or more give a
\* TupleInit of exactly those elements in source order, its span running
\* from `(` to `)`.
C14_ParenthesizedLists ==
    (PrimaryCalled /\ tokens \in ListStreams /\ Len(ItemsOf(Listed)) >= 1)
    => /\ result.ok
       /\ pos = Len(Body) + 1
       /\ IF Len(ItemsOf(Listed)) = 1
          THEN Shape(result.expr) = ItemsOf(Listed)[1]
          ELSE /\ Shape(result.expr) = SNode("TupleInit", "", "", ItemsOf(Listed))
               /\ result.expr.span = Range(1, Len(Body))

\* ( a , Foo { } , 1 , ) ;
C14_Witness ==
    /\ called = "parse_primary_expression"
    /\ tokens = <<LeftParen, a, Comma, Foo, LeftCurly, RightCurly, Comma, one, Comma,
                  RightParen, Semicolon>>
    /\ result.ok
    /\ Shape(result.expr) = SNode("TupleInit", "", "",
                                  <<SId("a"), SInit("Foo", <<>>), SImplicit("1")>>)
    /\ result.expr.span = Range(1, 10)
    /\ pos = 11

-----------------------------------------------------------------------------
(* Streams that take every loop of the parser round more than once, and    *)
(* every stream they begin with (a truncated stream ends each loop and     *)
(* each nested call at one of its steps).                                  *)

U8 == Tk("U8")
U16 == Tk("U16")
Dot == Tk("Dot")
Minus == Tk("Minus")

LoopStreams ==
    { <<a, Tk("Or"), b, Tk("Or"), c, Tk("And"), a, Tk("And"), b, Tk("BitOr"), c, Tk("BitOr"), a,
        Tk("BitXor"), b, Tk("BitXor"), c, Tk("BitAnd"), a, Tk("BitAnd"), b, Tk("Eq"), c,
        Tk("NotEq"), a, Tk("Lt"), b, Tk("GtEq"), c, Tk("Shl"), a, Tk("Shr"), b, Add, c, Minus,
        a, Tk("Mul"), b, Tk("Div"), c, Tk("Mod"), one>>,
      <<Minus, Tk("Not"), Tk("BitNot"), a, Tk("Exp"), b, Tk("As"), U8, Tk("As"), U16,
        Tk("Exp"), Minus, Minus, one, Tk("Exp"), c>>,
      <<a, Dot, b, Dot, TInt("0"), LeftSquare, one, RightSquare, LeftSquare, a, DotDot, b,
        RightSquare, LeftSquare, DotDot, RightSquare, LeftParen, RightParen, LeftParen, a,
        Comma, b, Comma, RightParen, Tk("DoubleColon"), c, LeftParen, one, RightParen, Dot, b>>,
      <<LeftParen, a, Comma, LeftParen, b, Comma, c, Comma, RightParen, Comma, LeftSquare, a,
        Comma, b, Comma, DotDotDot, c, Comma, RightSquare, Comma, Foo, LeftCurly, a, Colon,
        one, Comma, b, Comma, c, Colon, LeftParen, one, Comma, two, RightParen, Comma,
        RightCurly, Comma, LeftSquare, a, Semicolon, LeftParen, two, Comma, TInt("3"),
        RightParen, RightSquare, RightParen>>,
      <<a, Question, b, Question, c, Colon, a, Colon, b, Question, c, Colon, a>> }

ProgressStreams ==
    UNION {Prefixes(s) \cup {s, s \o <<Semicolon>>} : s \in LoopStreams}

InitProgress == InitWith(ProgressStreams)
SpecProgress == InitProgress /\ [][Next]_vars

\* C15: a call returns an expression or an error, with the cursor not
\* before where it was on entry and not beyond the end of the stream, and
\* during the call no loop of the parser began an iteration, nor was the
\* expression parser re-entered, without a token consumed since the
\* iteration or entry before.  (On a finite stream a parse that went on for
\* ever would have to do one of the two.)
C15_Progress ==
    called # "none"
    => /\ ~stalled
       /\ result.ok \/ result.expr.kind = "SyntaxError"
       /\ pos >= entry_pos
       /\ pos <= Len(tokens) + 1

\* the list stream, read to its end by parse_expression
C15_Witness ==
    /\ called = "parse_expression"
    /\ Len(tokens) = 49
    /\ tokens[1] = LeftParen
    /\ tokens[49] = Semicolon
    /\ result.ok
    /\ result.expr.kind = "TupleInit"
    /\ Len(result.expr.args) = 5
    /\ pos = 49
    /\ ~stalled


====
